---- MODULE Spec2Model ----
(***************************************************************************)
(* Model of the virtual grid layout controller (src/src/GridLayout.ts,     *)
(* current LayoutController variant, lines 1-284).                         *)
(*                                                                         *)
(* Arrays are 0-based functions, as in the source.  A cell handle (an      *)
(* HTMLElement) is a positive integer, `undefined` is 0.                   *)
(***************************************************************************)
EXTENDS Integers, Sequences, FiniteSets, TLC

VARIABLES
    renderedState,         \* LayoutController.renderedState (NoRs = undefined)
    cellContainerElement,  \* whether LayoutController.cellContainerElement exists
    caller,                \* the caller's objects: the parameters it renders with
    last,                  \* record of the last render()/clear() call
    fnIn,                  \* input of a pure-function application
    fnOut                  \* its result

vars == <<renderedState, cellContainerElement, caller, last, fnIn, fnOut>>

----------------------------------------------------------------------------
(* Bounds of the model. *)

NumRows == 3
NumCols == 2
MaxLen == 3
LongLen == 27

(* The measure batch length of scanDistance. *)
MeasureBatch == 25

----------------------------------------------------------------------------
(* Basic helpers. *)

Undefined == 0
NoError == "ok"
NoRs == [defined |-> FALSE]
NoArray == [defined |-> FALSE]
NoResult == [defined |-> FALSE]

Min(a, b) == IF a <= b THEN a ELSE b
Max(a, b) == IF a >= b THEN a ELSE b

\* a.length of a 0-based array
Length(a) == Cardinality(DOMAIN a)

\* The array with the given elements, 0-based.
Arr(s) == [i \in 0..(Len(s) - 1) |-> s[i + 1]]

\* Conversion of a number to the 16-bit signed integer an Int16Array stores.
ToInt16(x) == ((x + 32768) % 65536) - 32768

\* Int16Array.prototype.slice(start, end): both ends are clamped to the length.
\* a slice that runs to the end of the array
SliceToEnd(a, start, end) ==
    LET n == Length(a)
        s == Min(Max(start, 0), n)
    IN  [k \in 0..(n - s - 1) |-> a[s + k]]

Slice(a, start, end) ==
    LET n == Length(a)
        s == Min(Max(start, 0), n)
        e == Min(Max(end, 0), n)
    IN  [k \in 0..(e - s - 1) |-> a[s + k]]

----------------------------------------------------------------------------
(* The measure callback (MeasureFunction).  It is supplied by the caller;  *)
(* here it resolves the undetermined entries among the first `resolves`    *)
(* entries of the requested batch to `size` (resolves = -1: the whole      *)
(* batch; resolves = 0: a broken callback that resolves nothing).          *)

NoMeasure == [defined |-> FALSE, resolves |-> 0, size |-> 0]

MeasureFn(measure, a, startNdx, n, orientation) ==
    LET cnt == IF measure.resolves = -1 THEN n ELSE Min(measure.resolves, n)
    IN  [k \in DOMAIN a |->
            IF k >= startNdx /\ k < startNdx + cnt /\ a[k] = -1
            THEN measure.size ELSE a[k]]

----------------------------------------------------------------------------
(* scanDistance *)

ErrNoMeasure == "Undetermined value encountered but measure function is undefined."
ErrStayedUndetermined == "Value stayed undetermined even after measure function was called."

\* the value accumulated for an entry that was measured: re-read after the call
MeasuredEntry(aBefore, aAfter, i) == aAfter[i]

\* a batch that runs to the end of the array, without the cap of MeasureBatch
BatchLenUncapped(n, i) == n - i

\* the batch length passed to the measure callback
BatchLen(n, i) == Min(MeasureBatch, n - i)

\* a loop condition that goes on when the distance is exactly reached
ScanContinuesInclusive(d, distance, i, n) == d <= distance /\ i < n

\* the loop condition of scanDistance
ScanContinues(d, distance, i, n) == d < distance /\ i < n

RECURSIVE ScanLoop(_, _, _, _, _, _, _, _)
ScanLoop(a, n, i, d, distance, measure, orientation, acc) ==
    IF ~ScanContinues(d, distance, i, n)
    THEN [ndx |-> i, a |-> a, err |-> NoError, dist |-> d,
          calls |-> acc.calls, reads |-> acc.reads]
    ELSE
      LET w0 == a[i]
          reads2 == acc.reads \cup {i}
      IN
      IF w0 = -1
      THEN
        IF ~measure.defined
        THEN [ndx |-> i, a |-> a, err |-> ErrNoMeasure, dist |-> d,
              calls |-> acc.calls, reads |-> reads2]
        ELSE
          LET len == BatchLen(n, i)
              a2 == MeasureFn(measure, a, i, len, orientation)
              calls2 == Append(acc.calls,
                               [startNdx |-> i, n |-> len, orientation |-> orientation,
                                entryBefore |-> w0])
              w == MeasuredEntry(a, a2, i)
          IN
          IF a2[i] = -1
          THEN [ndx |-> i, a |-> a2, err |-> ErrStayedUndetermined, dist |-> d,
                calls |-> calls2, reads |-> reads2]
          ELSE ScanLoop(a2, n, i + 1, d + Max(0, w), distance, measure, orientation,
                        [calls |-> calls2, reads |-> reads2])
      ELSE ScanLoop(a, n, i + 1, d + Max(0, w0), distance, measure, orientation,
                    [calls |-> acc.calls, reads |-> reads2])

scanDistance(a, startNdx, distance, measure, orientation) ==
    ScanLoop(a, Length(a), startNdx, 0, distance, measure, orientation,
             [calls |-> <<>>, reads |-> {}])

----------------------------------------------------------------------------
(* integrateSizes *)

\* the value an Int16Array element holds after `a[i] = p`
StoreInt16(p) == ToInt16(p)

\* the running position p before element i (a JavaScript number, not wrapped)
RECURSIVE RunningPos(_, _, _)
RunningPos(startPos, sizes, i) ==
    IF i = 0 THEN startPos
    ELSE RunningPos(startPos, sizes, i - 1) + Max(0, sizes[i - 1])

integrateSizes(startPos, sizes) ==
    [i \in 0..Length(sizes) |-> StoreInt16(RunningPos(startPos, sizes, i))]

----------------------------------------------------------------------------
(* CellRectMap: a map for a rectangular area of cells. *)

NoIndex == -1
ErrInvalidCellPosition == "Invalid cell position."
ErrInvalidConstructorParameters == "Invalid constructor parameters."

CellRectMapValid(rowOffset, colOffset, rowCount, colCount) ==
    ~(rowOffset < 0 \/ colOffset < 0 \/ rowCount < 0 \/ colCount < 0)

NewCellRectMap(rowOffset, colOffset, rowCount, colCount) ==
    [rowOffset |-> rowOffset, colOffset |-> colOffset,
     rowCount |-> rowCount, colCount |-> colCount,
     a |-> [k \in 0..(rowCount * colCount - 1) |-> Undefined]]

\* a slot index that is not injective on the window
getArrayIndexSummed(m, rowNdx, colNdx) ==
    LET rowRel == rowNdx - m.rowOffset
        colRel == colNdx - m.colOffset
    IN  IF rowRel < 0 \/ rowRel >= m.rowCount \/ colRel < 0 \/ colRel >= m.colCount
        THEN NoIndex
        ELSE rowRel + colRel

getArrayIndex(m, rowNdx, colNdx) ==
    LET rowRel == rowNdx - m.rowOffset
        colRel == colNdx - m.colOffset
    IN  IF rowRel < 0 \/ rowRel >= m.rowCount \/ colRel < 0 \/ colRel >= m.colCount
        THEN NoIndex
        ELSE rowRel * m.colCount + colRel

\* a set that ignores a position outside the window
MapSetIgnoring(m, rowNdx, colNdx, cell) ==
    LET i == getArrayIndex(m, rowNdx, colNdx)
    IN  IF i = NoIndex
        THEN [err |-> NoError, map |-> m]
        ELSE [err |-> NoError, map |-> [m EXCEPT !.a[i] = cell]]

\* CellRectMap.set: [err, map]
MapSet(m, rowNdx, colNdx, cell) ==
    LET i == getArrayIndex(m, rowNdx, colNdx)
    IN  IF i = NoIndex
        THEN [err |-> ErrInvalidCellPosition, map |-> m]
        ELSE [err |-> NoError, map |-> [m EXCEPT !.a[i] = cell]]

\* CellRectMap.delete
MapDelete(m, rowNdx, colNdx) == MapSet(m, rowNdx, colNdx, Undefined)

\* CellRectMap.get
MapGet(m, rowNdx, colNdx) ==
    LET i == getArrayIndex(m, rowNdx, colNdx)
    IN  IF i = NoIndex THEN Undefined ELSE m.a[i]

\* CellRectMap.getAll, as the sequence of slots in array order
MapGetAll(m) == [k \in 1..Length(m.a) |-> m.a[k - 1]]

\* the handles a map holds
MapHandles(m) == {m.a[k] : k \in DOMAIN m.a} \ {Undefined}

\* the absolute coordinates at which a map holds a handle
MapCoords(m) ==
    {rc \in (m.rowOffset..(m.rowOffset + m.rowCount - 1))
            \X (m.colOffset..(m.colOffset + m.colCount - 1)) :
        MapGet(m, rc[1], rc[2]) # Undefined}

RsHandles(rs) ==
    IF rs.defined THEN MapHandles(rs.regularCells) \cup MapHandles(rs.macroCells) ELSE {}

----------------------------------------------------------------------------
(* The cell preparation callback (PrepareCellFunction), supplied by the    *)
(* caller.  It returns the offered old cell or a newly created element.    *)
(* An element is named by the cell it was created for and a generation     *)
(* bit, so that a new element differs from the old element of its cell and *)
(* from the elements of all other cells.                                   *)

regular == "regular"
macro == "macro"

CellHandle(cellType, rowNdx, colNdx, gen) ==
    1 + gen + 2 * ((IF cellType = macro THEN 0 ELSE colNdx + 1) + (NumCols + 2) * rowNdx)

Generation(cell) == (cell - 1) % 2

NewElement(cellType, rowNdx, colNdx, oldCell) ==
    CellHandle(cellType, rowNdx, colNdx,
               IF oldCell = Undefined THEN 0 ELSE 1 - Generation(oldCell))

Reuses(policy, cellType, rowNdx, colNdx) ==
    CASE policy = "reuse" -> TRUE
      [] policy = "fresh" -> FALSE
      [] OTHER -> (rowNdx + colNdx) % 2 = 0

ErrPrepareCell == "prepareCell threw"

\* a prepareCell that throws for one cell (policy "throws") and reuses elsewhere
PrepareCellThrows(policy, cellType, rowNdx, colNdx) ==
    policy = "throws" /\ cellType = regular /\ rowNdx = 1 /\ colNdx = 0

PrepareCell(policy, cellType, rowNdx, colNdx, oldCell) ==
    IF oldCell # Undefined /\ Reuses(policy, cellType, rowNdx, colNdx)
    THEN oldCell
    ELSE NewElement(cellType, rowNdx, colNdx, oldCell)

----------------------------------------------------------------------------
(* LayoutController.initRender *)

ErrInvalidViewportPosition == "Invalid viewport position."

\* Number.isInteger of an index.  An index n of a ViewportPosition is held as its
\* integer part (rowNdx, colNdx) and the number of halves of its fractional part
\* (rowNdxHalves, colNdxHalves: 0 or 1).
IsInteger(halves) == halves = 0

\* a check of the indices only
InvalidViewportIndex(pos) ==
    \/ pos.rowNdx < 0 \/ pos.colNdx < 0
    \/ ~IsInteger(pos.rowNdxHalves) \/ ~IsInteger(pos.colNdxHalves)

\* the check of the viewport position
InvalidViewportPosition(pos) ==
    \/ pos.rowNdx < 0 \/ pos.colNdx < 0
    \/ ~IsInteger(pos.rowNdxHalves) \/ ~IsInteger(pos.colNdxHalves)
    \/ pos.rowPixelOffset < 0 \/ pos.colPixelOffset < 0

\* a test that never finds the offset stale
StaleOffsetKept(visible, offset, visibleSizes) == FALSE

\* a test that accepts an offset equal to the size
StaleOffsetStrict(visible, offset, visibleSizes) ==
    visible > 0 /\ offset > 0 /\ offset > visibleSizes[0]

\* the test for a pixel offset that exceeds the size of the first visible element
StaleOffset(visible, offset, visibleSizes) ==
    visible > 0 /\ offset > 0 /\ offset >= visibleSizes[0]

\* the state the controller holds when initRender has assigned this.renderedState
InitialRs(rp, pos, rowScan, colScan) ==
    LET bottomRowNdx == rowScan.ndx
        rightColNdx == colScan.ndx
        visibleRows == bottomRowNdx - pos.rowNdx
        visibleCols == rightColNdx - pos.colNdx
        visibleRowHeights == Slice(rowScan.a, pos.rowNdx, bottomRowNdx)
        visibleMacroCellHeights ==
            IF rp.macroCellHeights.defined
            THEN [defined |-> TRUE,
                  a |-> Slice(rp.macroCellHeights.a, pos.rowNdx, bottomRowNdx)]
            ELSE NoArray
        visibleColWidths == Slice(colScan.a, pos.colNdx, rightColNdx)
        rowPixelOffset ==
            IF StaleOffset(visibleRows, pos.rowPixelOffset, visibleRowHeights)
            THEN 0 ELSE pos.rowPixelOffset
        colPixelOffset ==
            IF StaleOffset(visibleCols, pos.colPixelOffset, visibleColWidths)
            THEN 0 ELSE pos.colPixelOffset
    IN  [defined |-> TRUE,
         viewportPosition |-> [pos EXCEPT !.rowPixelOffset = rowPixelOffset,
                                          !.colPixelOffset = colPixelOffset],
         viewportHeight |-> rp.clientHeight,
         viewportWidth |-> rp.clientWidth,
         visibleRows |-> visibleRows,
         visibleCols |-> visibleCols,
         visibleRowHeights |-> visibleRowHeights,
         visibleColWidths |-> visibleColWidths,
         visibleMacroCellHeights |-> visibleMacroCellHeights,
         rowYPositions |-> integrateSizes(-rowPixelOffset, visibleRowHeights),
         colXPositions |-> integrateSizes(-colPixelOffset, visibleColWidths),
         regularCells |-> NewCellRectMap(pos.rowNdx, pos.colNdx, visibleRows, visibleCols),
         macroCells |-> NewCellRectMap(pos.rowNdx, 0, visibleRows, 1)]

\* a position object shared between the caller and the rendered state
CallerPositionAliased(pos, corrected) == corrected

\* The caller's ViewportPosition object after initRender: rs.viewportPosition is a
\* copy of it, and the offsets are reset in the copy.
CallerPosition(pos, corrected) == pos

\* a scan for the size of the viewport alone
ScanTargetOfSize(pixelOffset, viewportSize) == viewportSize

\* the distance initRender scans for: the part of the first element that is
\* scrolled off, and the viewport
ScanTarget(pixelOffset, viewportSize) == pixelOffset + viewportSize

\* initRender: [err, rs, rowHeights, colWidths, viewportPosition (the caller's objects
\* afterwards), measured]
initRender(rp) ==
    LET pos == rp.viewportPosition
        rowScan == scanDistance(rp.rowHeights, pos.rowNdx,
                                ScanTarget(pos.rowPixelOffset, rp.clientHeight),
                                rp.measure, TRUE)
        colScan == scanDistance(rp.colWidths, pos.colNdx,
                                ScanTarget(pos.colPixelOffset, rp.clientWidth),
                                rp.measure, FALSE)
    IN  IF InvalidViewportPosition(pos)
        THEN [err |-> ErrInvalidViewportPosition, rs |-> NoRs,
              rowHeights |-> rp.rowHeights, colWidths |-> rp.colWidths,
              viewportPosition |-> pos,
              measured |-> <<>>]
        ELSE IF rowScan.err # NoError
        THEN [err |-> rowScan.err, rs |-> NoRs,
              rowHeights |-> rowScan.a, colWidths |-> rp.colWidths,
              viewportPosition |-> pos,
              measured |-> rowScan.calls]
        ELSE IF colScan.err # NoError
        THEN [err |-> colScan.err, rs |-> NoRs,
              rowHeights |-> rowScan.a, colWidths |-> colScan.a,
              viewportPosition |-> pos,
              measured |-> rowScan.calls \o colScan.calls]
        ELSE [err |-> NoError, rs |-> InitialRs(rp, pos, rowScan, colScan),
              rowHeights |-> rowScan.a, colWidths |-> colScan.a,
              viewportPosition |->
                  CallerPosition(pos, InitialRs(rp, pos, rowScan, colScan).viewportPosition),
              measured |-> rowScan.calls \o colScan.calls]

----------------------------------------------------------------------------
(* LayoutController.renderCell and renderCells *)

\* Whether macroCellHeight is NaN: the read of an Int16Array behind its end gives
\* undefined, and Math.min of undefined and a number is NaN.
MacroCellHeightIsNaN(rs, relRowNdx) ==
    /\ rs.visibleMacroCellHeights.defined
    /\ relRowNdx \notin DOMAIN rs.visibleMacroCellHeights.a

\* a macro cell height that is not limited to the row height
MacroCellHeightUnclamped(rs, relRowNdx) ==
    IF MacroCellHeightIsNaN(rs, relRowNdx) THEN 0
    ELSE IF rs.visibleMacroCellHeights.defined
    THEN rs.visibleMacroCellHeights.a[relRowNdx]
    ELSE 0

\* the macro cell height of a visible row (0 stands in where it is NaN)
MacroCellHeight(rs, relRowNdx) ==
    IF MacroCellHeightIsNaN(rs, relRowNdx) THEN 0
    ELSE IF rs.visibleMacroCellHeights.defined
    THEN Min(rs.visibleMacroCellHeights.a[relRowNdx], rs.visibleRowHeights[relRowNdx])
    ELSE 0

\* a rectangle whose macro cell starts at the top of the row
CellRectMacroAtTop(rp, rs, cellType, relRowNdx, relColNdx) ==
    LET rowHeight == rs.visibleRowHeights[relRowNdx]
        macroCellHeight == MacroCellHeight(rs, relRowNdx)
        nan == MacroCellHeightIsNaN(rs, relRowNdx)
    IN  IF cellType = regular
        THEN [x |-> rs.colXPositions[relColNdx],
              y0 |-> rs.rowYPositions[relRowNdx],
              width |-> rs.visibleColWidths[relColNdx],
              height0 |-> rowHeight - macroCellHeight,
              nan |-> nan]
        ELSE [x |-> 0,
              y0 |-> rs.rowYPositions[relRowNdx],
              width |-> rp.macroCellWidth,
              height0 |-> macroCellHeight,
              nan |-> nan]

\* The rectangle of a cell before the vertical overlap is applied.  nan: height0
\* (and y0 of a macro cell) is NaN, and the number given for it means nothing.
CellRect(rp, rs, cellType, relRowNdx, relColNdx) ==
    LET rowHeight == rs.visibleRowHeights[relRowNdx]
        macroCellHeight == MacroCellHeight(rs, relRowNdx)
        nan == MacroCellHeightIsNaN(rs, relRowNdx)
    IN  IF cellType = regular
        THEN [x |-> rs.colXPositions[relColNdx],
              y0 |-> rs.rowYPositions[relRowNdx],
              width |-> rs.visibleColWidths[relColNdx],
              height0 |-> rowHeight - macroCellHeight,
              nan |-> nan]
        ELSE [x |-> 0,
              y0 |-> rs.rowYPositions[relRowNdx] + rowHeight - macroCellHeight,
              width |-> rp.macroCellWidth,
              height0 |-> macroCellHeight,
              nan |-> nan]

\* an early return that lets a rectangle of width or height 0 through
SkipsNegativeCell(rect) == rect.width < 0 \/ (~rect.nan /\ rect.height0 < 0)

\* the early return of renderCell: no cell for an empty rectangle (a comparison
\* with NaN is false)
SkipsCell(rect) == rect.width <= 0 \/ (~rect.nan /\ rect.height0 <= 0)

\* whether renderCell deletes the old cell from the old map
DeletesOldCell(oldCell, cell) == oldCell # Undefined /\ cell # oldCell

\* the old cell looked up in the map of the other cell type
OldCellsOfOther(st, cellType) == IF cellType = regular THEN st.oldMacro ELSE st.oldRegular

\* the old map renderCell looks the old cell up in (NoRs: there is none)
OldCellsOf(st, cellType) == IF cellType = regular THEN st.oldRegular ELSE st.oldMacro

\* One renderCell call followed by the caller's `set`; st is the state of the
\* render in progress.
renderCell(rp, rs, st, cellType, rowNdx, colNdx, relRowNdx, relColNdx) ==
    LET rect == CellRect(rp, rs, cellType, relRowNdx, relColNdx)
        oldCells == OldCellsOf(st, cellType)
        oldCell == IF st.hasOld THEN MapGet(oldCells, rowNdx, colNdx) ELSE Undefined
        throws == PrepareCellThrows(rp.prepareCell, cellType, rowNdx, colNdx)
        cell == IF throws THEN Undefined
                ELSE PrepareCell(rp.prepareCell, cellType, rowNdx, colNdx, oldCell)
        y == rect.y0 - rp.vCellOverlap
        height == rect.height0 + rp.vCellOverlap
        call == [cellType |-> cellType, rowNdx |-> rowNdx, colNdx |-> colNdx,
                 width |-> rect.width, height |-> height, oldCell |-> oldCell,
                 cell |-> cell, x |-> rect.x, y |-> y, nan |-> rect.nan]
        oldCells2 == IF DeletesOldCell(oldCell, cell)
                     THEN MapDelete(oldCells, rowNdx, colNdx).map
                     ELSE oldCells
        newSet == MapSet(IF cellType = regular THEN st.regularCells ELSE st.macroCells,
                         rowNdx, colNdx, cell)
    IN  IF SkipsCell(rect) THEN st
        ELSE IF throws
        THEN [st EXCEPT !.prepared = Append(@, call), !.err = ErrPrepareCell]
        ELSE [st EXCEPT
                !.prepared = Append(@, call),
                !.oldRegular = IF cellType = regular THEN oldCells2 ELSE @,
                !.oldMacro = IF cellType = macro THEN oldCells2 ELSE @,
                !.regularCells = IF cellType = regular THEN newSet.map ELSE @,
                !.macroCells = IF cellType = macro THEN newSet.map ELSE @,
                !.err = newSet.err]

\* columns visited from the right
ColNdxFromRight(rs, relColNdx) ==
    rs.viewportPosition.colNdx + rs.visibleCols - 1 - relColNdx

\* colNdx of the inner loop of renderCells
ColNdxOf(rs, relColNdx) == rs.viewportPosition.colNdx + relColNdx

\* The loops of renderCells from (relRowNdx, relColNdx) on; relColNdx = visibleCols
\* stands for the macro cell of the row.
RECURSIVE RenderFrom(_, _, _, _, _)
RenderFrom(rp, rs, st, relRowNdx, relColNdx) ==
    IF relRowNdx >= rs.visibleRows \/ st.err # NoError THEN st
    ELSE IF relColNdx < rs.visibleCols
    THEN RenderFrom(rp, rs,
                    renderCell(rp, rs, st, regular,
                               rp.viewportPosition.rowNdx + relRowNdx,
                               ColNdxOf(rs, relColNdx),
                               relRowNdx, relColNdx),
                    relRowNdx, relColNdx + 1)
    ELSE RenderFrom(rp, rs,
                    renderCell(rp, rs, st, macro,
                               rp.viewportPosition.rowNdx + relRowNdx, 0,
                               relRowNdx, 0),
                    relRowNdx + 1, 0)

renderCells(rp, rs, oldRs) ==
    RenderFrom(rp, rs,
               [regularCells |-> rs.regularCells,
                macroCells |-> rs.macroCells,
                hasOld |-> oldRs.defined,
                oldRegular |-> IF oldRs.defined THEN oldRs.regularCells ELSE NoRs,
                oldMacro |-> IF oldRs.defined THEN oldRs.macroCells ELSE NoRs,
                prepared |-> <<>>,
                err |-> NoError],
               0, 0)

----------------------------------------------------------------------------
(* LayoutController.releaseCells and releaseOldRenderStateCells: the       *)
(* sequence of handles passed to the release function.                     *)

releaseCells(cells, releaseCell) ==
    IF ~releaseCell THEN <<>>
    ELSE SelectSeq(MapGetAll(cells), LAMBDA cell : cell # Undefined)

\* a release of the old regular cells only
releaseOldRegularCells(hasOld, oldRegular, oldMacro, releaseCell) ==
    IF hasOld THEN releaseCells(oldRegular, releaseCell) ELSE <<>>

releaseOldRenderStateCells(hasOld, oldRegular, oldMacro, releaseCell) ==
    IF hasOld
    THEN releaseCells(oldRegular, releaseCell) \o releaseCells(oldMacro, releaseCell)
    ELSE <<>>

----------------------------------------------------------------------------
(* LayoutController.render and LayoutController.clear, as functions of the *)
(* controller's state and the parameters of the call.                      *)

NoMaps == [defined |-> FALSE]

OldMaps(rs) ==
    IF rs.defined
    THEN [defined |-> TRUE, regularCells |-> rs.regularCells, macroCells |-> rs.macroCells]
    ELSE NoMaps

\* an assignment of this.renderedState made before the scans
CommittedStateOnEntry(oldRs, ir, st) ==
    IF ir.err = ErrInvalidViewportPosition THEN oldRs
    ELSE IF ir.err # NoError THEN NoRs
    ELSE [ir.rs EXCEPT !.regularCells = st.regularCells,
                       !.macroCells = st.macroCells]

\* this.renderedState when render returns or throws: initRender assigns it after the
\* scans, and renderCells fills the maps of the object assigned
CommittedState(oldRs, ir, st) ==
    IF ir.err # NoError THEN oldRs
    ELSE [ir.rs EXCEPT !.regularCells = st.regularCells,
                       !.macroCells = st.macroCells]

\* the events a successful render dispatches
RenderEvents == <<"render">>

\* a render that dispatches its event before it fills the maps and releases
RenderLogEventFirst(assigned, prepared, released, ok) ==
    IF ~assigned THEN <<>>
    ELSE <<[step |-> "renderedState", defined |-> TRUE, cell |-> Undefined]>>
         \o (IF ok
             THEN <<[step |-> "render", defined |-> TRUE, cell |-> Undefined]>>
             ELSE <<>>)
         \o [k \in DOMAIN prepared |->
                [step |-> "prepareCell", defined |-> TRUE, cell |-> prepared[k].cell]]
         \o [k \in DOMAIN released |->
                [step |-> "releaseCell", defined |-> TRUE, cell |-> released[k]]]

\* What a render did, in order, given whether initRender assigned
\* this.renderedState, the calls of prepareCell (each cell returned is then
\* recorded in the map of the state assigned), the calls of the release function
\* and whether render returned: the dispatch of the event is its last statement.
RenderLog(assigned, prepared, released, ok) ==
    IF ~assigned THEN <<>>
    ELSE <<[step |-> "renderedState", defined |-> TRUE, cell |-> Undefined]>>
         \o [k \in DOMAIN prepared |->
                [step |-> "prepareCell", defined |-> TRUE, cell |-> prepared[k].cell]]
         \o [k \in DOMAIN released |->
                [step |-> "releaseCell", defined |-> TRUE, cell |-> released[k]]]
         \o (IF ok
             THEN <<[step |-> "render", defined |-> TRUE, cell |-> Undefined]>>
             ELSE <<>>)

render(oldRs, rp) ==
    LET ir == initRender(rp)
        st == renderCells(rp, ir.rs, oldRs)
        released == releaseOldRenderStateCells(st.hasOld, st.oldRegular, st.oldMacro,
                                               rp.releaseCell)
        ok == ir.err = NoError /\ st.err = NoError
    IN  [renderedState |-> CommittedState(oldRs, ir, st),
         containerCreated |-> ir.err = NoError,
         rowHeights |-> ir.rowHeights,
         colWidths |-> ir.colWidths,
         viewportPosition |-> ir.viewportPosition,
         err |-> IF ir.err # NoError THEN ir.err ELSE st.err,
         measured |-> ir.measured,
         prepared |-> IF ir.err = NoError THEN st.prepared ELSE <<>>,
         released |-> IF ok THEN released ELSE <<>>,
         events |-> IF ok THEN RenderEvents ELSE <<>>]

\* What clear does, in order: the assignment of this.renderedState, the calls of
\* the release function, the dispatch of the event.
ClearLog(renderedStateDefined, released) ==
       <<[step |-> "renderedState", defined |-> renderedStateDefined, cell |-> Undefined]>>
    \o [k \in DOMAIN released |->
            [step |-> "releaseCell", defined |-> renderedStateDefined, cell |-> released[k]]]
    \o <<[step |-> "clear", defined |-> renderedStateDefined, cell |-> Undefined]>>

\* a clear that keeps the rendered state
clearKeepingState(oldRs, releaseCell) ==
    LET released == IF oldRs.defined
                    THEN releaseOldRenderStateCells(TRUE, oldRs.regularCells,
                                                    oldRs.macroCells, releaseCell)
                    ELSE <<>>
    IN  [renderedState |-> oldRs,
         released |-> released,
         events |-> <<"clear">>,
         log |-> ClearLog(oldRs.defined, released)]

clear(oldRs, releaseCell) ==
    LET released == IF oldRs.defined
                    THEN releaseOldRenderStateCells(TRUE, oldRs.regularCells,
                                                    oldRs.macroCells, releaseCell)
                    ELSE <<>>
    IN  [renderedState |-> NoRs,
         released |-> released,
         events |-> <<"clear">>,
         log |-> ClearLog(FALSE, released)]

----------------------------------------------------------------------------
(* The calls the application makes. *)

NoCall ==
    [op |-> "none", err |-> NoError, oldCells |-> NoMaps, sameParms |-> FALSE,
     measure |-> FALSE, measured |-> <<>>, prepared |-> <<>>, released |-> <<>>, events |-> <<>>,
     log |-> <<>>]

\* The parameters of render(): the RenderParms object built from the caller's
\* objects c, and the size of the viewport element that initRender reads.
RenderParms(c, measure) ==
    [viewportPosition |-> c.viewportPosition,
     rowHeights |-> c.rowHeights,
     colWidths |-> c.colWidths,
     macroCellHeights |-> c.macroCellHeights,
     macroCellWidth |-> c.macroCellWidth,
     vCellOverlap |-> c.vCellOverlap,
     measure |-> measure,
     prepareCell |-> c.prepareCell,
     releaseCell |-> c.releaseCell,
     clientHeight |-> c.size[1],
     clientWidth |-> c.size[2]]

\* the parameters of the previous call that decide what a render does
SameParms(rp) ==
    /\ last.op = "render"
    /\ last.err = NoError
    /\ rp.viewportPosition = caller.viewportPosition
    /\ rp.rowHeights = caller.rowHeights
    /\ rp.colWidths = caller.colWidths
    /\ rp.macroCellHeights = caller.macroCellHeights
    /\ <<rp.clientHeight, rp.clientWidth>> = caller.size

\* the caller's objects c after a render call
CallerAfter(c, out) ==
    [c EXCEPT !.rowHeights = out.rowHeights,
              !.colWidths = out.colWidths,
              !.viewportPosition = out.viewportPosition]

\* The application renders with its objects c and the measure function given;
\* after a call that failed it goes back to the objects of its last good render.
RenderEffect(c, rp, out) ==
    /\ renderedState' = out.renderedState
    /\ cellContainerElement' = (cellContainerElement \/ out.containerCreated)
    /\ caller' = IF out.err = NoError THEN CallerAfter(c, out) ELSE caller
    /\ last' = [op |-> "render",
                err |-> out.err,
                oldCells |-> OldMaps(renderedState),
                sameParms |-> SameParms(rp),
                measure |-> rp.measure.defined,
                measured |-> out.measured,
                prepared |-> out.prepared,
                released |-> out.released,
                events |-> out.events,
                log |-> <<>>]

Render(c, measure) ==
    \E rp \in {RenderParms(c, measure)}, out \in {render(renderedState, RenderParms(c, measure))} :
        /\ RenderEffect(c, rp, out)
        /\ UNCHANGED <<fnIn, fnOut>>

\* The same call, with the parameters kept in fnIn and, in fnOut, the caller's
\* objects after the call (also after a call that failed) and what the call did,
\* in order.
RenderWith(c, measure) ==
    \E rp \in {RenderParms(c, measure)}, out \in {render(renderedState, RenderParms(c, measure))} :
        /\ RenderEffect(c, rp, out)
        /\ fnIn' = [defined |-> TRUE, rp |-> rp]
        /\ fnOut' = [defined |-> TRUE, caller |-> CallerAfter(c, out),
                     log |-> RenderLog(out.containerCreated, out.prepared,
                                       out.released, out.err = NoError)]

Clear(releaseCell) ==
    \E out \in {clear(renderedState, releaseCell)} :
        /\ renderedState' = out.renderedState
        /\ last' = [op |-> "clear",
                    err |-> NoError,
                    oldCells |-> OldMaps(renderedState),
                    sameParms |-> FALSE,
                    measure |-> FALSE,
                    measured |-> <<>>,
                    prepared |-> <<>>,
                    released |-> out.released,
                    events |-> out.events,
                    log |-> out.log]
        /\ UNCHANGED <<cellContainerElement, caller, fnIn, fnOut>>

----------------------------------------------------------------------------
(* The inputs of the model. *)

\* size arrays: every element has the size v, except element k, of size w
SizeCase(n, v, k, w) == [i \in 0..(n - 1) |-> IF i = k THEN w ELSE v]

RowHeightCases == {SizeCase(NumRows, 2, 1, w) : w \in {-1, 0, 2}}
ColWidthCases == {SizeCase(NumCols, 2, 0, w) : w \in {-1, 0, 2}}
MacroCellHeightCases ==
    {NoArray, [defined |-> TRUE, a |-> [i \in 0..(NumRows - 1) |-> i]]}

\* <<index, pixel offset>> of the first visible row and of the first visible column
RowPositions == {<<0, 0>>, <<0, 1>>, <<1, 0>>, <<1, 1>>, <<NumRows, 0>>}
ColPositions == {<<0, 0>>, <<0, 1>>, <<1, 0>>}

\* <<clientHeight, clientWidth>> of the viewport element
ViewportSizes == {<<1, 2>>, <<3, 3>>}

MeasureCases == {NoMeasure,
                 [defined |-> TRUE, resolves |-> -1, size |-> 1],
                 [defined |-> TRUE, resolves |-> 0, size |-> 0]}

\* the caller's callbacks: the prepareCell behaviour, and whether it passes releaseCell
CallbackCases == {<<"reuse", TRUE>>, <<"mixed", TRUE>>, <<"mixed", FALSE>>}

Unresolved(a) == \E i \in DOMAIN a : a[i] = -1

topLeftViewportPosition ==
    [rowNdx |-> 0, colNdx |-> 0, rowPixelOffset |-> 0, colPixelOffset |-> 0,
     rowNdxHalves |-> 0, colNdxHalves |-> 0]

\* the caller's objects before the first render
InitialCaller(cb) ==
    [viewportPosition |-> topLeftViewportPosition,
     rowHeights |-> SizeCase(NumRows, 2, 0, 2),
     colWidths |-> SizeCase(NumCols, 2, 0, 2),
     macroCellHeights |-> NoArray,
     size |-> <<3, 3>>,
     macroCellWidth |-> 4,
     vCellOverlap |-> 0,
     prepareCell |-> cb[1],
     releaseCell |-> cb[2]]

\* the state after `new LayoutController(viewportElement)`
Constructed(cb) ==
    /\ renderedState = NoRs
    /\ cellContainerElement = FALSE
    /\ caller = InitialCaller(cb)
    /\ last = NoCall

Init ==
    /\ \E cb \in CallbackCases : Constructed(cb)
    /\ fnIn = NoResult
    /\ fnOut = NoResult

\* What the application changes between two renders: it scrolls vertically or
\* horizontally, the viewport or an element is resized, or the macro cells change
\* (or nothing changes).
CallerChanges ==
         {[caller EXCEPT !.viewportPosition.rowNdx = p[1],
                         !.viewportPosition.rowPixelOffset = p[2]] : p \in RowPositions}
    \cup {[caller EXCEPT !.viewportPosition.colNdx = p[1],
                         !.viewportPosition.colPixelOffset = p[2]] : p \in ColPositions}
    \cup {[caller EXCEPT !.size = s] : s \in ViewportSizes}
    \cup {[caller EXCEPT !.rowHeights = a] : a \in RowHeightCases}
    \cup {[caller EXCEPT !.colWidths = a] : a \in ColWidthCases}
    \cup {[caller EXCEPT !.macroCellHeights = a] : a \in MacroCellHeightCases}

RenderCall ==
    \E c \in CallerChanges :
        \E measure \in IF Unresolved(c.rowHeights) \/ Unresolved(c.colWidths)
                       THEN MeasureCases ELSE {NoMeasure} :
            Render(c, measure)

ClearCall == Clear(caller.releaseCell)

Next == RenderCall \/ ClearCall

Spec == Init /\ [][Next]_vars

----------------------------------------------------------------------------
(* One render with parameters from a wide set, on a controller as constructed  *)
(* or after a first render.                                                *)

\* viewport positions: the valid ones, one without a visible row, and one invalid
\* position for each part of the check
WidePositions ==
         {[topLeftViewportPosition EXCEPT !.rowNdx = r, !.rowPixelOffset = ro,
                                          !.colNdx = c, !.colPixelOffset = co] :
              r \in {0, 1}, ro \in {0, 1, 2}, c \in {0, 1}, co \in {0, 2}}
    \cup {[topLeftViewportPosition EXCEPT !.rowNdx = NumRows, !.rowPixelOffset = 1],
          [topLeftViewportPosition EXCEPT !.rowNdx = NumRows + 1],
          [topLeftViewportPosition EXCEPT !.colNdx = NumCols],
          [topLeftViewportPosition EXCEPT !.colNdx = NumCols + 1, !.colPixelOffset = 2],
          [topLeftViewportPosition EXCEPT !.rowNdx = -1],
          [topLeftViewportPosition EXCEPT !.colNdx = -1],
          [topLeftViewportPosition EXCEPT !.rowNdx = 1, !.rowNdxHalves = 1],
          [topLeftViewportPosition EXCEPT !.colNdxHalves = 1],
          [topLeftViewportPosition EXCEPT !.rowPixelOffset = -1],
          [topLeftViewportPosition EXCEPT !.colPixelOffset = -1]}

WideRowHeights ==
    {SizeCase(NumRows, 2, 1, w) : w \in {-2, -1, 0, 2}} \cup {SizeCase(NumRows, 2, 0, 0)}

WideColWidths == {SizeCase(NumCols, 2, 0, w) : w \in {0, 2}}

\* a macro height array of length n that repeats the pattern
MacroArr(n, pattern) ==
    [defined |-> TRUE, a |-> [i \in 0..(n - 1) |-> pattern[(i % Len(pattern)) + 1]]]

\* macro heights below, at and above the row height and negative ones; arrays longer
\* and shorter than rowHeights
WideMacroCellHeights ==
    {NoArray,
     MacroArr(NumRows, <<1, 3, -1>>),
     MacroArr(NumRows, <<-1, -1, 2>>),
     MacroArr(NumRows + 1, <<0, 1, 2>>),
     MacroArr(1, <<1>>)}

WideViewportSizes == {<<1, 3>>, <<3, 3>>, <<5, 3>>}

VCellOverlaps == {0, 1}

WideCallers ==
    {[caller EXCEPT !.viewportPosition = p, !.rowHeights = rh, !.colWidths = cw,
                    !.macroCellHeights = mh, !.size = sz, !.vCellOverlap = vo] :
        p \in WidePositions, rh \in WideRowHeights, cw \in WideColWidths,
        mh \in WideMacroCellHeights, sz \in WideViewportSizes, vo \in VCellOverlaps}

ParmsCallbackCases == {<<"reuse", TRUE>>, <<"throws", TRUE>>}

InitParms ==
    /\ \E cb \in ParmsCallbackCases : Constructed(cb)
    /\ fnIn = NoResult
    /\ fnOut = NoResult

\* the first render of the application, with its initial objects
BaseRender ==
    /\ fnIn = NoResult
    /\ last.op = "none"
    /\ Render(caller, NoMeasure)

WideRender ==
    /\ fnIn = NoResult
    /\ \E c \in WideCallers :
          \E measure \in IF Unresolved(c.rowHeights) \/ Unresolved(c.colWidths)
                         THEN MeasureCases ELSE {NoMeasure} :
              RenderWith(c, measure)

NextParms == BaseRender \/ WideRender

ParmsSpec == InitParms /\ [][NextParms]_vars

----------------------------------------------------------------------------
(* scanDistance applied to bounded inputs. *)

ScanSizeVals == {-1, 0, 1, 2}

\* all arrays of a length up to MaxLen
ShortArrays == UNION {[0..(n - 1) -> ScanSizeVals] : n \in 0..MaxLen}

\* long arrays: resolved up to an index k, undetermined from there on
LongArrays ==
    {[i \in 0..(n - 1) |-> IF i >= k THEN -1 ELSE 1] : n \in {LongLen - 1, LongLen},
                                                        k \in {0, 1, LongLen}}

ScanMeasureCases ==
    MeasureCases \cup {[defined |-> TRUE, resolves |-> 1, size |-> 2]}

ScanInputs ==
    {[a |-> a, startNdx |-> s, distance |-> d, measure |-> m, orientation |-> o] :
        a \in ShortArrays \cup LongArrays, s \in 0..MaxLen, d \in {-3, -1, 0, 1, 3, LongLen + 3},
        m \in ScanMeasureCases, o \in BOOLEAN}

InitScan ==
    /\ Constructed(<<"reuse", TRUE>>)
    /\ fnIn \in {in \in ScanInputs : in.startNdx <= Length(in.a)}
    /\ fnOut = NoResult

ApplyScan ==
    /\ fnOut = NoResult
    /\ fnOut' = [defined |-> TRUE,
                 r |-> scanDistance(fnIn.a, fnIn.startNdx, fnIn.distance, fnIn.measure,
                                    fnIn.orientation)]
    /\ UNCHANGED <<renderedState, cellContainerElement, caller, last, fnIn>>

NextScan == ApplyScan

ScanSpec == InitScan /\ [][NextScan]_vars

----------------------------------------------------------------------------
(* CellRectMap.set, get and delete applied to bounded inputs. *)

\* a map with every slot empty, or with a handle in every slot
MapCases ==
    {[m EXCEPT !.a = [k \in DOMAIN m.a |-> IF full THEN k + 1 ELSE Undefined]] :
        m \in {NewCellRectMap(ro, co, rc, cc) :
                  ro \in {0, 1}, co \in {0, 1}, rc \in {0, 1, 2}, cc \in {1, 2}},
        full \in BOOLEAN}

MapOps == {"set", "get", "delete"}

\* the element passed to set: one that no map holds
SetCell == CellHandle(regular, NumRows, NumCols, 0)

MapInputs ==
    {[map |-> m, op |-> op, rowNdx |-> r, colNdx |-> c] :
        m \in MapCases, op \in MapOps, r \in -1..MaxLen, c \in -1..MaxLen}

\* the call: [err, map (the map afterwards), value (what get returns)]
MapCall(in) ==
    CASE in.op = "set" ->
            [err |-> MapSet(in.map, in.rowNdx, in.colNdx, SetCell).err,
             map |-> MapSet(in.map, in.rowNdx, in.colNdx, SetCell).map,
             value |-> Undefined]
      [] in.op = "delete" ->
            [err |-> MapDelete(in.map, in.rowNdx, in.colNdx).err,
             map |-> MapDelete(in.map, in.rowNdx, in.colNdx).map,
             value |-> Undefined]
      [] OTHER ->
            [err |-> NoError, map |-> in.map,
             value |-> MapGet(in.map, in.rowNdx, in.colNdx)]

InitMap ==
    /\ Constructed(<<"reuse", TRUE>>)
    /\ fnIn \in MapInputs
    /\ fnOut = NoResult

ApplyMap ==
    /\ fnOut = NoResult
    /\ fnOut' = [defined |-> TRUE, r |-> MapCall(fnIn)]
    /\ UNCHANGED <<renderedState, cellContainerElement, caller, last, fnIn>>

NextMap == ApplyMap

MapSpec == InitMap /\ [][NextMap]_vars

----------------------------------------------------------------------------
(* integrateSizes applied to bounded inputs. *)

Int16Vals == {-32768, -1, 0, 1, 2, 16384, 32767}

IntegrateInputs ==
    {[startPos |-> p, sizes |-> a] :
        p \in {-32768, -2, -1, 0},
        a \in UNION {[0..(n - 1) -> Int16Vals] : n \in 0..MaxLen}}

InitIntegrate ==
    /\ Constructed(<<"reuse", TRUE>>)
    /\ fnIn \in IntegrateInputs
    /\ fnOut = NoResult

ApplyIntegrate ==
    /\ fnOut = NoResult
    /\ fnOut' = [defined |-> TRUE, r |-> integrateSizes(fnIn.startPos, fnIn.sizes)]
    /\ UNCHANGED <<renderedState, cellContainerElement, caller, last, fnIn>>

NextIntegrate == ApplyIntegrate

IntegrateSpec == InitIntegrate /\ [][NextIntegrate]_vars

----------------------------------------------------------------------------
(* Helpers of the properties. *)

\* the elements of a sequence, and how often one occurs in it
Range(seq) == {seq[k] : k \in DOMAIN seq}
Count(seq, x) == Cardinality({k \in DOMAIN seq : seq[k] = x})

\* sum of max(0, a[k]) for from <= k < to
RECURSIVE SumSizes(_, _, _)
SumSizes(a, from, to) ==
    IF to <= from THEN 0 ELSE SumSizes(a, from, to - 1) + Max(0, a[to - 1])

----------------------------------------------------------------------------
(* Properties of integrateSizes (IntegrateSpec). *)

\* C7: for every start offset and every Int16 size array, the result of
\* integrateSizes has length n+1, boundaries[0] = startPos and
\* boundaries[i+1] - boundaries[i] = max(0, sizes[i]) for all i.
\* (Violated: the boundaries are stored as 16-bit integers and wrap around.)
C7_PrefixSums ==
    fnOut.defined =>
        LET b == fnOut.r
            n == Length(fnIn.sizes)
        IN  /\ Length(b) = n + 1
            /\ b[0] = fnIn.startPos
            /\ \A i \in 0..(n - 1) : b[i + 1] - b[i] = Max(0, fnIn.sizes[i])

----------------------------------------------------------------------------
(* Properties of scanDistance (ScanSpec). *)

AllResolved(a) == \A i \in DOMAIN a : a[i] >= 0

\* C8: for a size array with every entry resolved and >= 0, a start index in
\* 0..length and a distance >= 0, scanDistance returns the smallest endIndex >= start
\* with sum(sizes[start..endIndex-1]) >= distance, or length if the sizes from start
\* on do not add up to the distance; it reads no index >= length.
C8_ForwardScan ==
    (fnOut.defined /\ AllResolved(fnIn.a)) =>
        LET r == fnOut.r
            n == Length(fnIn.a)
            reaching == {e \in fnIn.startNdx..n :
                            SumSizes(fnIn.a, fnIn.startNdx, e) >= fnIn.distance}
        IN  /\ r.err = NoError
            /\ r.ndx \in fnIn.startNdx..n
            /\ IF reaching = {} THEN r.ndx = n
               ELSE r.ndx \in reaching /\ \A e \in reaching : r.ndx <= e
            /\ \A i \in r.reads : i >= fnIn.startNdx /\ i < n

\* a scan over resolved sizes that stops inside the array, after at least one element
C8_Witness ==
    /\ fnOut.defined
    /\ AllResolved(fnIn.a)
    /\ fnOut.r.ndx > fnIn.startNdx
    /\ fnOut.r.ndx < Length(fnIn.a)

\* C9: the measure callback is invoked only when the scan reaches an index i whose
\* entry is -1, with startNdx = i, n = min(25, length - i) (so i + n <= length) and
\* the orientation of the scan; never for an index below the start index of the scan,
\* nor twice for an index; and the value the callback stored is the one accumulated.
C9_LazyMeasurement ==
    fnOut.defined =>
        LET r == fnOut.r
            n == Length(fnIn.a)
        IN  /\ \A k \in DOMAIN r.calls :
                  LET call == r.calls[k]
                  IN  /\ call.entryBefore = -1
                      /\ call.startNdx \in r.reads
                      /\ call.startNdx >= fnIn.startNdx
                      /\ call.n = Min(25, n - call.startNdx)
                      /\ call.startNdx + call.n <= n
                      /\ call.orientation = fnIn.orientation
                      /\ \A j \in DOMAIN r.calls :
                            j # k => r.calls[j].startNdx # call.startNdx
            \* an entry that was resolved when the scan began is never measured
            /\ \A k \in DOMAIN r.calls : fnIn.a[r.calls[k].startNdx] = -1
            /\ (r.calls # <<>>) => fnIn.measure.defined
            /\ (r.err = NoError) => r.dist = SumSizes(r.a, fnIn.startNdx, r.ndx)

\* a scan of a long array whose first batch is capped at 25 entries and that goes on
\* to measure a second batch behind it
C9_Witness ==
    /\ fnOut.defined
    /\ fnOut.r.err = NoError
    /\ Len(fnOut.r.calls) = 2
    /\ fnOut.r.calls[1].n = 25
    /\ fnOut.r.calls[2].startNdx = fnOut.r.calls[1].startNdx + 25
    /\ fnOut.r.dist > 25

----------------------------------------------------------------------------
(* Properties of LayoutController.render (Spec). *)

RenderSucceeded == last.op = "render" /\ last.err = NoError

\* the indices of the prepareCell calls of the last render for a cell
PreparedAt(cellType, rowNdx, colNdx) ==
    {k \in DOMAIN last.prepared :
        /\ last.prepared[k].cellType = cellType
        /\ last.prepared[k].rowNdx = rowNdx
        /\ last.prepared[k].colNdx = colNdx}

\* the coordinates at which the previous render recorded a handle and for which the
\* last render made no prepareCell call
Leftover(cellType, oldMap) ==
    {rc \in MapCoords(oldMap) : PreparedAt(cellType, rc[1], rc[2]) = {}}

\* C1: when a render that follows a render and supplies a release function returns,
\* no handle recorded in the new regularCells or macroCells has been passed to the
\* release function during that call.
\* (Violated: a handle that prepareCell returned again stays in the old map.)
C1_NoLiveHandleReleased ==
    (RenderSucceeded /\ last.oldCells.defined /\ caller.releaseCell) =>
        RsHandles(renderedState) \cap Range(last.released) = {}

\* C2: a render with the parameters of the render before it, a release function and
\* a prepareCell that returns every offered handle leaves the same handle at every
\* cell, and passes no regular cell's prior handle to the release function.
\* (Violated: every reused handle is passed to the release function.)
C2_IdempotentRerender ==
    (RenderSucceeded /\ last.sameParms /\ caller.prepareCell = "reuse"
        /\ caller.releaseCell) =>
        /\ renderedState.regularCells = last.oldCells.regularCells
        /\ renderedState.macroCells = last.oldCells.macroCells
        /\ MapHandles(last.oldCells.regularCells) \cap Range(last.released) = {}

\* C3: when prepareCell is offered a previous handle and returns a different one,
\* the previous handle is passed to the release function exactly once in that call.
\* (Violated: renderCell deletes the previous handle from the old map.)
C3_ReplacedHandleReleased ==
    (RenderSucceeded /\ caller.releaseCell) =>
        \A k \in DOMAIN last.prepared :
            LET call == last.prepared[k]
            IN  (call.oldCell # Undefined /\ call.cell # call.oldCell) =>
                    Count(last.released, call.oldCell) = 1

\* C4: every handle the previous render recorded at a cell for which the new render
\* makes no prepareCell call is passed to the release function exactly once when a
\* release function is supplied; without one no release call is made.
C4_LeftoverRelease ==
    (RenderSucceeded /\ last.oldCells.defined) =>
        /\ caller.releaseCell =>
             /\ \A rc \in Leftover(regular, last.oldCells.regularCells) :
                   Count(last.released,
                         MapGet(last.oldCells.regularCells, rc[1], rc[2])) = 1
             /\ \A rc \in Leftover(macro, last.oldCells.macroCells) :
                   Count(last.released,
                         MapGet(last.oldCells.macroCells, rc[1], rc[2])) = 1
        /\ ~caller.releaseCell => last.released = <<>>

\* a render that left a regular and a macro handle of the previous render unclaimed,
\* and prepared other cells
C4_Witness ==
    /\ RenderSucceeded
    /\ last.oldCells.defined
    /\ caller.releaseCell
    /\ Leftover(regular, last.oldCells.regularCells) # {}
    /\ Leftover(macro, last.oldCells.macroCells) # {}
    /\ last.prepared # <<>>

\* the visible range of the rendered state, in absolute coordinates
VisibleRowNdxs(rs) ==
    rs.viewportPosition.rowNdx..(rs.viewportPosition.rowNdx + rs.visibleRows - 1)
VisibleColNdxs(rs) ==
    rs.viewportPosition.colNdx..(rs.viewportPosition.colNdx + rs.visibleCols - 1)

\* the cells of the visible range whose regular rectangle has a positive width and
\* height, from the caller's size arrays
PositiveRegularCells(rs) ==
    {rc \in VisibleRowNdxs(rs) \X VisibleColNdxs(rs) :
        LET rowHeight == caller.rowHeights[rc[1]]
            macroHeight == IF caller.macroCellHeights.defined
                           THEN Min(caller.macroCellHeights.a[rc[1]], rowHeight)
                           ELSE 0
        IN  caller.colWidths[rc[2]] > 0 /\ rowHeight - macroHeight > 0}

\* C5: a render calls prepareCell exactly once for each (row, col) of the visible
\* range whose regular rectangle has a positive width and height, never for another
\* one, and afterwards exactly those coordinates hold a handle in regularCells.
C5_Coverage ==
    RenderSucceeded =>
        /\ \A rc \in PositiveRegularCells(renderedState) :
              Cardinality(PreparedAt(regular, rc[1], rc[2])) = 1
        /\ \A k \in DOMAIN last.prepared :
              last.prepared[k].cellType = regular =>
                  <<last.prepared[k].rowNdx, last.prepared[k].colNdx>>
                      \in PositiveRegularCells(renderedState)
        /\ MapCoords(renderedState.regularCells) = PositiveRegularCells(renderedState)

\* a render with a regular cell prepared, and visible cells of an empty rectangle:
\* one of width 0 and one of height 0
C5_Witness ==
    /\ RenderSucceeded
    /\ PositiveRegularCells(renderedState) # {}
    /\ \E rc \in VisibleRowNdxs(renderedState) \X VisibleColNdxs(renderedState) :
          caller.colWidths[rc[2]] = 0
    /\ \E rc \in VisibleRowNdxs(renderedState) \X VisibleColNdxs(renderedState) :
          /\ caller.colWidths[rc[2]] > 0
          /\ rc \notin PositiveRegularCells(renderedState)

\* C6: after every successful render, every row of the rendered range with a
\* positive height has rowYPositions[i] < viewportHeight and rowYPositions[i+1] > 0,
\* and likewise every rendered column.
\* (Violated: the scan uses the pixel offset before a stale offset is reset.)
C6_OnlyIntersecting ==
    RenderSucceeded =>
        LET rs == renderedState
        IN  /\ \A i \in 0..(rs.visibleRows - 1) :
                  rs.visibleRowHeights[i] > 0 =>
                      /\ rs.rowYPositions[i] < rs.viewportHeight
                      /\ rs.rowYPositions[i + 1] > 0
            /\ \A i \in 0..(rs.visibleCols - 1) :
                  rs.visibleColWidths[i] > 0 =>
                      /\ rs.colXPositions[i] < rs.viewportWidth
                      /\ rs.colXPositions[i + 1] > 0

MeasurementErrors == {ErrNoMeasure, ErrStayedUndetermined}

\* C10: a render in which a scan reaches an entry that is -1 without a measure
\* function, or that is still -1 after the measure callback, throws (so a render
\* that returns has no visible size of -1, and has not measured without a measure
\* function); the render that throws leaves renderedState as it was, calls neither
\* prepareCell nor the release function and dispatches no "render" event.
C10_MeasurementFailure ==
    [][/\ (last'.op = "render" /\ last'.err \in MeasurementErrors) =>
            /\ renderedState' = renderedState
            /\ last'.prepared = <<>>
            /\ last'.released = <<>>
            /\ last'.events = <<>>
       /\ (last'.op = "render" /\ last'.err = NoError) =>
            /\ \A i \in DOMAIN renderedState'.visibleRowHeights :
                  renderedState'.visibleRowHeights[i] # -1
            /\ \A i \in DOMAIN renderedState'.visibleColWidths :
                  renderedState'.visibleColWidths[i] # -1
            /\ (~last'.measure) => last'.measured = <<>>
      ]_vars

\* a render that threw for a size the measure callback left undetermined, on a
\* controller that holds cells of an earlier render
C10_Witness ==
    /\ last.op = "render"
    /\ last.err = ErrStayedUndetermined
    /\ last.measured # <<>>
    /\ renderedState.defined
    /\ RsHandles(renderedState) # {}

----------------------------------------------------------------------------
(* Properties of one render with parameters from the wide set (ParmsSpec). *)

\* the call of the step is a render whose parameters are kept in fnIn
WideRenderStep == ~fnIn.defined /\ fnIn'.defined

\* C11: a render whose rowNdx or colNdx is negative or not an integer, or whose
\* rowPixelOffset or colPixelOffset is negative, throws the viewport position error
\* (and not an error of a scan); measure, prepareCell and the release function are
\* not called, renderedState is unchanged and no "render" event is dispatched.
C11_InvalidPositionFailsFast ==
    [][(/\ WideRenderStep
        /\ LET pos == fnIn'.rp.viewportPosition
           IN  \/ pos.rowNdx < 0 \/ pos.rowNdxHalves # 0
               \/ pos.colNdx < 0 \/ pos.colNdxHalves # 0
               \/ pos.rowPixelOffset < 0 \/ pos.colPixelOffset < 0) =>
            /\ last'.err = ErrInvalidViewportPosition
            /\ last'.measured = <<>>
            /\ last'.prepared = <<>>
            /\ last'.released = <<>>
            /\ last'.events = <<>>
            /\ renderedState' = renderedState
      ]_vars

\* a render at a negative pixel offset, with an undetermined size and a measure
\* function, on a controller that holds a rendered state
C11_Witness ==
    /\ fnIn.defined
    /\ fnIn.rp.viewportPosition.colPixelOffset < 0
    /\ fnIn.rp.measure.defined
    /\ Unresolved(fnIn.rp.rowHeights)
    /\ last.err = ErrInvalidViewportPosition
    /\ renderedState.defined

\* C12: when render aborts with an error at any point of the call (validation,
\* measurement, cell preparation, map access), renderedState after the call is the
\* one from before the call.
\* (Violated: initRender assigns this.renderedState before the cells are prepared.)
C12_NoPartialState ==
    [][(last'.op = "render" /\ last'.err # NoError) => renderedState' = renderedState]_vars

\* the parameters of the render kept in fnIn have a valid viewport position
ValidPosition ==
    LET pos == fnIn.rp.viewportPosition
    IN  /\ pos.rowNdx >= 0 /\ pos.rowNdxHalves = 0
        /\ pos.colNdx >= 0 /\ pos.colNdxHalves = 0
        /\ pos.rowPixelOffset >= 0 /\ pos.colPixelOffset >= 0

\* The pixel offset of the call is stale: it is positive and not below the size, as
\* the caller's array holds it after the call, of the first visible element.
StaleRowOffset ==
    LET pos == fnIn.rp.viewportPosition
    IN  /\ pos.rowNdx < Length(fnIn.rp.rowHeights)
        /\ pos.rowPixelOffset > 0
        /\ pos.rowPixelOffset >= fnOut.caller.rowHeights[pos.rowNdx]
StaleColOffset ==
    LET pos == fnIn.rp.viewportPosition
    IN  /\ pos.colNdx < Length(fnIn.rp.colWidths)
        /\ pos.colPixelOffset > 0
        /\ pos.colPixelOffset >= fnOut.caller.colWidths[pos.colNdx]

\* the errors of a render that do not come from its viewport position
OtherErrors == MeasurementErrors \cup {ErrPrepareCell}

\* C13: a render whose rowPixelOffset is positive and not below the resolved height
\* of the first visible row does not throw for that; it proceeds with the row
\* offset 0: rowYPositions[0] = 0 and renderedState.viewportPosition.rowPixelOffset
\* = 0.  The same holds for colPixelOffset and the first visible column.
C13_StaleOffsetCorrected ==
    (fnIn.defined /\ ValidPosition) =>
        /\ (StaleRowOffset \/ StaleColOffset) => last.err \in {NoError} \cup OtherErrors
        /\ (StaleRowOffset /\ last.err = NoError) =>
              /\ renderedState.rowYPositions[0] = 0
              /\ renderedState.viewportPosition.rowPixelOffset = 0
        /\ (StaleColOffset /\ last.err = NoError) =>
              /\ renderedState.colXPositions[0] = 0
              /\ renderedState.viewportPosition.colPixelOffset = 0

\* a render that returned with a row offset and a column offset equal to the sizes
\* of the first visible row and column
C13_Witness ==
    /\ fnIn.defined /\ ValidPosition
    /\ StaleRowOffset /\ StaleColOffset
    /\ fnIn.rp.viewportPosition.rowPixelOffset
           = fnOut.caller.rowHeights[fnIn.rp.viewportPosition.rowNdx]
    /\ fnIn.rp.viewportPosition.colPixelOffset
           = fnOut.caller.colWidths[fnIn.rp.viewportPosition.colNdx]
    /\ last.err = NoError
    /\ last.prepared # <<>>

C15_MismatchedLengthsRejected ==
    (/\ fnIn.defined
     /\ fnIn.rp.macroCellHeights.defined
     /\ Length(fnIn.rp.macroCellHeights.a) # Length(fnIn.rp.rowHeights)) =>
        /\ last.err # NoError
        /\ last.prepared = <<>>

----------------------------------------------------------------------------
(* Properties of CellRectMap (MapSpec). *)

\* the position of the call lies outside the window of its map
OutOfWindow ==
    ~(/\ fnIn.rowNdx \in fnIn.map.rowOffset..(fnIn.map.rowOffset + fnIn.map.rowCount - 1)
      /\ fnIn.colNdx \in fnIn.map.colOffset..(fnIn.map.colOffset + fnIn.map.colCount - 1))

----------------------------------------------------------------------------
(* Properties of LayoutController.clear (Spec). *)

\* the handles the rendered state held when clear was called
ClearedHandles ==
    IF last.oldCells.defined
    THEN MapHandles(last.oldCells.regularCells) \cup MapHandles(last.oldCells.macroCells)
    ELSE {}

\* what a clear with a release function has done when it returns
ClearDone ==
    (last.op = "clear" /\ caller.releaseCell) =>
        /\ \A h \in ClearedHandles : Count(last.released, h) = 1
        /\ Range(last.released) \subseteq ClearedHandles
        /\ renderedState = NoRs
        /\ last.events = <<"clear">>
        /\ last.log[1].step = "renderedState" /\ ~last.log[1].defined
        /\ last.log[Len(last.log)].step = "clear"
        /\ \A k \in 2..(Len(last.log) - 1) : last.log[k].step = "releaseCell"

\* C17: clear(releaseFn) after any sequence of renders passes each handle recorded
\* in the rendered state's regular and macro maps to releaseFn exactly once and no
\* other handle (none when there is no rendered state), leaves renderedState
\* undefined, then dispatches exactly one "clear" event; the render that follows
\* offers no previous handle to prepareCell.
C17_Clear ==
    /\ []ClearDone
    /\ [][(last.op = "clear" /\ last'.op = "render") =>
             \A k \in DOMAIN last'.prepared : last'.prepared[k].oldCell = Undefined]_vars

\* a clear that released regular and macro handles, after more than one render
C17_Witness ==
    /\ last.op = "clear"
    /\ caller.releaseCell
    /\ last.oldCells.defined
    /\ MapHandles(last.oldCells.regularCells) # {}
    /\ MapHandles(last.oldCells.macroCells) # {}
    /\ Len(last.released) > 2

----------------------------------------------------------------------------
(* Properties of the cells of one render (ParmsSpec). *)

\* the render whose parameters are kept in fnIn has returned
WideRenderSucceeded == fnIn.defined /\ last.op = "render" /\ last.err = NoError

\* the macro array of the call has an entry for the row
HasMacroEntry(rowNdx) ==
    /\ fnIn.rp.macroCellHeights.defined
    /\ rowNdx \in DOMAIN fnIn.rp.macroCellHeights.a

\* the macro height of a row: the array's entry, at most the row height; 0 without
\* an array
MacroHeightOf(rowNdx) ==
    IF HasMacroEntry(rowNdx)
    THEN Min(fnIn.rp.macroCellHeights.a[rowNdx], fnOut.caller.rowHeights[rowNdx])
    ELSE 0

\* the height is not a number: there is an array, without an entry for the row
MacroHeightIsNaN(rowNdx) ==
    fnIn.rp.macroCellHeights.defined /\ ~HasMacroEntry(rowNdx)

\* The prepareCell call was made with the rectangle of the cell, for the vertical
\* overlap given.
PlacedWithOverlap(call, overlap) ==
    LET rs == renderedState
        r == call.rowNdx - rs.viewportPosition.rowNdx
        c == call.colNdx - rs.viewportPosition.colNdx
        rowHeight == fnOut.caller.rowHeights[call.rowNdx]
        macroHeight == MacroHeightOf(call.rowNdx)
    IN  /\ call.nan = MacroHeightIsNaN(call.rowNdx)
        /\ call.cellType = regular =>
              /\ call.x = rs.colXPositions[c]
              /\ call.width = fnOut.caller.colWidths[call.colNdx]
              /\ call.y = rs.rowYPositions[r] - overlap
              /\ ~call.nan => call.height = rowHeight - macroHeight + overlap
        /\ call.cellType = macro =>
              /\ call.x = 0
              /\ call.width = fnIn.rp.macroCellWidth
              /\ ~call.nan =>
                    /\ call.y = rs.rowYPositions[r] + rowHeight - macroHeight - overlap
                    /\ call.height = macroHeight + overlap

\* The regular and the macro rectangle of one row: the macro rectangle starts
\* `overlap` above the end of the regular one, and the two reach from `overlap`
\* above the row's top boundary to its bottom boundary.
RowSpanned(reg, mac, overlap) ==
    LET rs == renderedState
        r == reg.rowNdx - rs.viewportPosition.rowNdx
    IN  (~reg.nan /\ ~mac.nan) =>
            /\ mac.y + overlap = reg.y + reg.height
            /\ reg.y = rs.rowYPositions[r] - overlap
            /\ mac.y + mac.height = rs.rowYPositions[r + 1]

Geometry(overlap) ==
    /\ \A k \in DOMAIN last.prepared : PlacedWithOverlap(last.prepared[k], overlap)
    /\ \A k, m \in DOMAIN last.prepared :
          (/\ last.prepared[k].cellType = regular
           /\ last.prepared[m].cellType = macro
           /\ last.prepared[k].rowNdx = last.prepared[m].rowNdx) =>
              RowSpanned(last.prepared[k], last.prepared[m], overlap)

\* C18, as stated: the regular cell is placed at {x: colXPositions[c], y:
\* rowYPositions[r], width: colWidth, height: rowHeight - macroHeight} and the macro
\* cell at {x: 0, y: rowYPositions[r] + rowHeight - macroHeight, height:
\* macroHeight}; the two rectangles of a row do not overlap, the macro rectangle
\* starts where the regular one ends, and together they span the row's extent.
\* (Violated: the rectangles are moved up and enlarged by vCellOverlap; a row
\* without a macro entry gets rectangles whose height is not a number.)
C18_GeometryWithoutOverlap == WideRenderSucceeded => Geometry(0)

\* C18, amended: the regular cell is placed at {x: colXPositions[c], y:
\* rowYPositions[r] - vCellOverlap, width: colWidth, height: rowHeight -
\* macroHeight + vCellOverlap} and the macro cell at {x: 0, y: rowYPositions[r] +
\* rowHeight - macroHeight - vCellOverlap, width: macroCellWidth, height:
\* macroHeight + vCellOverlap}, where macroHeight is the row's macro entry limited to
\* the row height (the heights are NaN when the macro array has no entry for the
\* row); when both cells of a row are prepared, the macro rectangle starts
\* vCellOverlap above the end of the regular one and the two reach from
\* rowYPositions[r] - vCellOverlap to rowYPositions[r+1].
C18_Geometry ==
    WideRenderSucceeded =>
        /\ Geometry(fnIn.rp.vCellOverlap)
        /\ \A k \in DOMAIN last.prepared :
              last.prepared[k].nan => ~HasMacroEntry(last.prepared[k].rowNdx)

\* a render with a vertical overlap, a scrolled row and a row with both cells
C18_Witness ==
    /\ WideRenderSucceeded
    /\ fnIn.rp.vCellOverlap > 0
    /\ renderedState.rowYPositions[0] < 0
    /\ \E k, m \in DOMAIN last.prepared :
          /\ last.prepared[k].cellType = regular
          /\ last.prepared[m].cellType = macro
          /\ last.prepared[k].rowNdx = last.prepared[m].rowNdx
          /\ last.prepared[k].colNdx > 0

\* the prepareCell calls of the last render for a row
CallsOfRow(cellType, rowNdx) ==
    {k \in DOMAIN last.prepared :
        last.prepared[k].cellType = cellType /\ last.prepared[k].rowNdx = rowNdx}

\* the visible rows of positive height whose macro entry meets or exceeds the height
ClampedRows ==
    {rowNdx \in VisibleRowNdxs(renderedState) :
        /\ HasMacroEntry(rowNdx)
        /\ fnOut.caller.rowHeights[rowNdx] > 0
        /\ fnIn.rp.macroCellHeights.a[rowNdx] >= fnOut.caller.rowHeights[rowNdx]}

\* C19: with vCellOverlap = 0, for a row (of positive height) whose macro height
\* meets or exceeds the row's height, the macro cell is rendered with a height equal
\* to the row height and its top at the row's top boundary, no regular cell is
\* prepared for the row, and no cell of the row extends above the row's top boundary
\* or below its bottom boundary.
C19_MacroClamped ==
    (WideRenderSucceeded /\ fnIn.rp.vCellOverlap = 0) =>
        \A rowNdx \in ClampedRows :
            LET r == rowNdx - renderedState.viewportPosition.rowNdx
            IN  /\ Cardinality(CallsOfRow(macro, rowNdx)) = 1
                /\ CallsOfRow(regular, rowNdx) = {}
                /\ \A k \in CallsOfRow(macro, rowNdx) :
                      /\ ~last.prepared[k].nan
                      /\ last.prepared[k].height = fnOut.caller.rowHeights[rowNdx]
                      /\ last.prepared[k].y = renderedState.rowYPositions[r]
                      /\ last.prepared[k].y + last.prepared[k].height
                             <= renderedState.rowYPositions[r + 1]

\* a render without overlap that shows a row whose macro height exceeds its height
\* and a row whose macro height equals its height
C19_Witness ==
    /\ WideRenderSucceeded
    /\ fnIn.rp.vCellOverlap = 0
    /\ \E rowNdx \in ClampedRows :
          fnIn.rp.macroCellHeights.a[rowNdx] > fnOut.caller.rowHeights[rowNdx]
    /\ \E rowNdx \in VisibleRowNdxs(renderedState) :
          /\ HasMacroEntry(rowNdx)
          /\ fnIn.rp.macroCellHeights.a[rowNdx] > 0
          /\ fnIn.rp.macroCellHeights.a[rowNdx] < fnOut.caller.rowHeights[rowNdx]

\* C20: a visible row whose resolved height is 0 or negative produces no prepareCell
\* call, neither regular nor macro, whatever its macro entry is, and adds nothing to
\* the following boundary; a column of width <= 0 produces no regular cell.
\* (Violated: with a negative macro entry the regular cells of a row of height 0
\* get a positive height.)
C20_EmptyRowNoCell ==
    WideRenderSucceeded =>
        /\ \A rowNdx \in VisibleRowNdxs(renderedState) :
              fnOut.caller.rowHeights[rowNdx] <= 0 =>
                  LET r == rowNdx - renderedState.viewportPosition.rowNdx
                  IN  /\ CallsOfRow(regular, rowNdx) = {}
                      /\ CallsOfRow(macro, rowNdx) = {}
                      /\ renderedState.rowYPositions[r + 1] = renderedState.rowYPositions[r]
        /\ \A colNdx \in VisibleColNdxs(renderedState) :
              fnOut.caller.colWidths[colNdx] <= 0 =>
                  \A k \in DOMAIN last.prepared :
                      last.prepared[k].cellType = regular => last.prepared[k].colNdx # colNdx

----------------------------------------------------------------------------
(* GridScroll.process. Numbers that may be fractional (scrollValue, the
   computed topNdx) are held as integers counting parts of 1/Unit; pixel
   sizes and element counts are plain integers. The measure function is the
   caller's: ip.measure is the sequence of MeasureResults it returns, in call
   order. *)

Unit == 4

ScrollUnits == {"absPosition", "propPosition", "smallIncr", "mediumIncr", "largeIncr"}

MediumIncrFactor == 3
sampleFactor == 4

ErrUnknownScrollUnit == "Unknown scrollUnit."

Sign(x) == IF x > 0 THEN 1 ELSE IF x < 0 THEN -1 ELSE 0
Abs(x) == IF x < 0 THEN -x ELSE x

\* a quotient num / den, kept unevaluated
Ratio(num, den) == [num |-> num, den |-> den]

RoundNone(x) == x

\* Math.round: the nearest integer, halves upward
Round(x) == Unit * ((2 * x + Unit) \div (2 * Unit))

\* Math.max(0, Math.min(ip.elementCount - 1, Math.round(topNdx)))
ClampIndex(elementCount, x) == Max(0, Min(Unit * (elementCount - 1), Round(x)))

LargeStepCounted(d1, r) == Max(1, Length(r.sizes))

\* d2 of the largeIncr case
LargeStep(d1, r) ==
    Max(1, IF Unit * r.distance > Abs(d1)
           THEN Length(r.sizes) - 1
           ELSE Length(r.sizes))

estimateScrollbarThumbSize(ip, r) ==
    LET n == Max(1, Length(r.sizes))
    IN  Ratio(ip.viewportSize * n,
              r.distance * (ip.elementCount - 1) + ip.viewportSize * n)

\* a position that divides by the number of elements
ScrollbarPositionOfCount(topNdx, elementCount) == Ratio(topNdx, Unit * elementCount)

\* topNdx / (ip.elementCount - 1), topNdx in parts of 1/Unit
ScrollbarPositionOf(topNdx, elementCount) == Ratio(topNdx, Unit * (elementCount - 1))

ReturnsEarly(ip) == ip.elementCount <= 1 \/ ip.viewportSize <= 0

\* the call: [err, returned, topNdx (in parts of 1/Unit), scrollbarPosition,
\* scrollbarThumbSize, measureCalls (the calls of ip.measure, in order, the
\* distance in parts of 1/Unit)]
process(ip) ==
    IF ReturnsEarly(ip)
    THEN [err |-> NoError, returned |-> TRUE, topNdx |-> 0,
          scrollbarPosition |-> Ratio(0, 1),
          scrollbarThumbSize |-> Ratio(0, 1),
          measureCalls |-> <<>>]
    ELSE IF ip.scrollUnit \notin ScrollUnits
    THEN [err |-> ErrUnknownScrollUnit, returned |-> FALSE, topNdx |-> 0,
          scrollbarPosition |-> Ratio(0, 1),
          scrollbarThumbSize |-> Ratio(0, 1),
          measureCalls |-> <<>>]
    ELSE
    LET large == ip.scrollUnit = "largeIncr"
        d1 == ip.scrollValue * ip.viewportSize
        r == ip.measure[1]
        d2 == LargeStep(d1, r)
        topNdx0 ==
            CASE ip.scrollUnit = "absPosition" -> ip.scrollValue
              [] ip.scrollUnit = "propPosition" ->
                    ip.scrollValue * (ip.elementCount - 1)
              [] ip.scrollUnit = "smallIncr" ->
                    Unit * ip.topNdx + ip.scrollValue
              [] ip.scrollUnit = "mediumIncr" ->
                    Unit * ip.topNdx + ip.scrollValue * MediumIncrFactor
              [] OTHER ->
                    Unit * (ip.topNdx + d2 * Sign(ip.scrollValue))
        topNdx == ClampIndex(ip.elementCount, topNdx0)
        sample == IF large THEN ip.measure[2] ELSE ip.measure[1]
        incrCalls ==
            IF large
            THEN <<[startNdx |-> ip.topNdx, distance |-> d1]>>
            ELSE <<>>
    IN  [err |-> NoError, returned |-> TRUE, topNdx |-> topNdx,
         scrollbarPosition |-> ScrollbarPositionOf(topNdx, ip.elementCount),
         scrollbarThumbSize |-> estimateScrollbarThumbSize(ip, sample),
         measureCalls |-> incrCalls \o
            <<[startNdx |-> 0,
               distance |-> Unit * ip.viewportSize * sampleFactor]>>]

(* process applied to bounded inputs. The scroll units include one that is
   not a member of ScrollUnit; the MeasureResults are those of sequences of
   equal sizes together with a distance that falls short of, meets or
   exceeds the distance asked for. *)

MeasureResultOf(n, size, distance) ==
    [sizes |-> [i \in 0..(n - 1) |-> size], distance |-> distance]

IncrResults ==
    {MeasureResultOf(n, 2, d) : n \in 0..MaxLen, d \in {0, 2, 4, 5}}

SampleResults ==
    {MeasureResultOf(n, 2, d) : n \in {0, 2}, d \in {0, 3}}

ScrollValues == {-2 * Unit, -Unit, -3, -2, -1, 0, 1, 2, 3, Unit, 2 * Unit}

ElementCounts == {0, 1, 2, MaxLen + 1}

ScrollViewportSizes == {-1, 0, 2, 4}

InputParms(u, v, t, c, s, r1, r2) ==
    [scrollUnit |-> u, scrollValue |-> v, topNdx |-> t, elementCount |-> c,
     viewportSize |-> s, measure |-> <<r1, r2>>]

\* top 5 of 12 rows of height 20 in a viewport of 100 pixels, one page down
PageDownInput ==
    [scrollUnit |-> "largeIncr", scrollValue |-> Unit, topNdx |-> 5,
     elementCount |-> 12, viewportSize |-> 100,
     measure |-> <<MeasureResultOf(5, 20, 100), MeasureResultOf(12, 20, 240)>>]

\* topNdx is an index of the grid on entry
InitProcess ==
    /\ Constructed(<<"reuse", TRUE>>)
    /\ \/ \E u \in ScrollUnits \cup {"none"}, v \in ScrollValues, c \in ElementCounts,
             s \in ScrollViewportSizes, r1 \in IncrResults, r2 \in SampleResults :
             \E t \in 0..Max(0, c - 1) :
                 fnIn = InputParms(u, v, t, c, s, r1, r2)
       \/ fnIn = PageDownInput
    /\ fnOut = NoResult

ApplyProcess ==
    /\ fnOut = NoResult
    /\ fnOut' = [defined |-> TRUE, r |-> process(fnIn)]
    /\ UNCHANGED <<renderedState, cellContainerElement, caller, last, fnIn>>

NextProcess == ApplyProcess

ProcessSpec == InitProcess /\ [][NextProcess]_vars

(* The application writes scrollbarPosition to its scrollbar, and the scrollbar
   hands that value back in a call with scrollUnit propPosition. The value is
   the quotient itself, which the parts of 1/Unit cannot hold for every
   elementCount, so the call is taken at a Ratio. *)

\* Math.round of pos * (elementCount - 1), in parts of 1/Unit
PositionIndex(pos, elementCount) ==
    Unit * ((2 * pos.num * (elementCount - 1) + pos.den) \div (2 * pos.den))

\* process with scrollUnit propPosition and scrollValue pos
processPosition(ip, pos) ==
    IF ReturnsEarly(ip)
    THEN [topNdx |-> 0, scrollbarPosition |-> Ratio(0, 1)]
    ELSE LET topNdx == Max(0, Min(Unit * (ip.elementCount - 1),
                                  PositionIndex(pos, ip.elementCount)))
         IN  [topNdx |-> topNdx,
              scrollbarPosition |-> ScrollbarPositionOf(topNdx, ip.elementCount)]

WriteBack ==
    /\ fnOut.defined
    /\ "back" \notin DOMAIN fnOut
    /\ fnOut.r.returned
    /\ fnOut' = [defined |-> TRUE, r |-> fnOut.r,
                 back |-> processPosition([fnIn EXCEPT !.topNdx = fnOut.r.topNdx \div Unit],
                                          fnOut.r.scrollbarPosition)]
    /\ UNCHANGED <<renderedState, cellContainerElement, caller, last, fnIn>>

NextRoundTrip == ApplyProcess \/ WriteBack

RoundTripSpec == InitProcess /\ [][NextRoundTrip]_vars

----------------------------------------------------------------------------
(* Properties of GridScroll.process (ProcessSpec). *)

ProcessReturned == fnOut.defined /\ fnOut.r.err = NoError /\ fnOut.r.returned

Scrollable(ip) == ip.elementCount >= 2 /\ ip.viewportSize > 0

\* C21: for each of the five scroll units and every scrollValue, with
\* elementCount >= 2 and viewportSize > 0 process returns an integer topNdx
\* in 0..elementCount-1 and scrollbarPosition = topNdx / (elementCount-1);
\* with elementCount <= 1 or viewportSize <= 0 it returns topNdx 0,
\* scrollbarPosition 0 and scrollbarThumbSize 0 and never calls measure.
C21_ResultRange ==
    fnOut.defined =>
        LET ip == fnIn
            out == fnOut.r
        IN  /\ (Scrollable(ip) /\ ip.scrollUnit \in ScrollUnits) =>
                /\ ProcessReturned
                /\ out.topNdx % Unit = 0
                /\ 0 <= out.topNdx
                /\ out.topNdx <= Unit * (ip.elementCount - 1)
                /\ out.scrollbarPosition.den # 0
                /\ out.scrollbarPosition.num * Unit * (ip.elementCount - 1)
                       = out.topNdx * out.scrollbarPosition.den
            /\ ~Scrollable(ip) =>
                /\ ProcessReturned
                /\ out.topNdx = 0
                /\ out.scrollbarPosition.num = 0
                /\ out.scrollbarThumbSize.num = 0
                /\ out.measureCalls = <<>>

\* a proportional position between two indices was rounded to an index
\* inside the range
C21_Witness ==
    /\ ProcessReturned
    /\ Scrollable(fnIn)
    /\ fnIn.scrollUnit = "propPosition"
    /\ (fnIn.scrollValue * (fnIn.elementCount - 1)) % Unit # 0
    /\ fnOut.r.topNdx > 0
    /\ fnOut.r.topNdx < Unit * (fnIn.elementCount - 1)

LargeIncrDone ==
    /\ ProcessReturned
    /\ Scrollable(fnIn)
    /\ fnIn.scrollUnit = "largeIncr"
    /\ fnIn.scrollValue # 0

\* the distance measured exceeds the distance asked for
Overshot(ip) == Unit * ip.measure[1].distance > Abs(ip.scrollValue * ip.viewportSize)

ExpectedStep(ip) ==
    LET n == Length(ip.measure[1].sizes)
    IN  IF Overshot(ip) THEN Max(1, n - 1) ELSE Max(1, n)

\* C22: large-increment scrolling with scrollValue v # 0 calls
\* measure(topNdx, v * viewportSize) first; the step is max(1, n-1) when the
\* measured distance exceeds |v * viewportSize| and max(1, n) otherwise; the
\* new topNdx is topNdx + sign(v) * step clamped to 0..elementCount-1, so it
\* moves at least one index in the direction of v unless already at that
\* end; top 5, viewport 100, all heights 20, v = +1 gives 10.
C22_LargeIncrement ==
    LargeIncrDone =>
        LET ip == fnIn
            out == fnOut.r
            target == ip.topNdx + Sign(ip.scrollValue) * ExpectedStep(ip)
            last1 == ip.elementCount - 1
        IN  /\ Len(out.measureCalls) >= 1
            /\ out.measureCalls[1] =
                   [startNdx |-> ip.topNdx,
                    distance |-> ip.scrollValue * ip.viewportSize]
            /\ out.topNdx = Unit * Max(0, Min(last1, target))
            /\ ip.scrollValue > 0 =>
                   \/ out.topNdx >= Unit * (ip.topNdx + 1)
                   \/ ip.topNdx = last1 /\ out.topNdx = Unit * last1
            /\ ip.scrollValue < 0 =>
                   \/ out.topNdx <= Unit * (ip.topNdx - 1)
                   \/ ip.topNdx = 0 /\ out.topNdx = 0
            /\ ip = PageDownInput => out.topNdx = Unit * 10

\* a page up whose measurement overshot: two sizes were returned and the top
\* index moved back by one
C22_Witness ==
    /\ LargeIncrDone
    /\ fnIn.scrollValue < 0
    /\ Overshot(fnIn)
    /\ Length(fnIn.measure[1].sizes) = 2
    /\ fnIn.topNdx >= 1
    /\ fnOut.r.topNdx = Unit * (fnIn.topNdx - 1)

\* C23: an unknown scroll-unit kind is fatal: for every input whose
\* scrollUnit is none of absPosition, propPosition, smallIncr, mediumIncr,
\* largeIncr, process raises an error and returns no result.
C23_UnknownUnitFatal ==
    (fnOut.defined /\ fnIn.scrollUnit \notin ScrollUnits) =>
        /\ fnOut.r.err = ErrUnknownScrollUnit
        /\ ~fnOut.r.returned

----------------------------------------------------------------------------
(* The caller changes its own objects after a render: an element of one of
   its size arrays, or a field of its ViewportPosition object. What an
   observer then reads from renderedState depends on which of the caller's
   objects the rendered state still refers to. *)

\* the rendered state referring to the caller's arrays and position object
RetainedViews(rp) ==
    {"rowHeights", "colWidths", "macroCellHeights", "viewportPosition"}

\* The caller's objects that the rendered state refers to: none.
\* rs.viewportPosition is a spread copy, the visible sizes are made by
\* Int16Array.slice, and integrateSizes fills new arrays.
RetainedObjects(rp) == {}

PositionFields == {"rowNdx", "colNdx", "rowPixelOffset", "colPixelOffset"}

\* the writes the caller can make to its objects c
Mutations(c) ==
         {[object |-> "rowHeights", ndx |-> i, field |-> "", value |-> c.rowHeights[i] + 1] :
              i \in DOMAIN c.rowHeights}
    \cup {[object |-> "colWidths", ndx |-> i, field |-> "", value |-> c.colWidths[i] + 1] :
              i \in DOMAIN c.colWidths}
    \cup (IF c.macroCellHeights.defined
          THEN {[object |-> "macroCellHeights", ndx |-> i, field |-> "",
                 value |-> c.macroCellHeights.a[i] + 1] :
                    i \in DOMAIN c.macroCellHeights.a}
          ELSE {})
    \cup {[object |-> "viewportPosition", ndx |-> 0, field |-> f,
           value |-> c.viewportPosition[f] + 1] : f \in PositionFields}

\* the caller's objects after the write m
Mutate(c, m) ==
    CASE m.object = "rowHeights" -> [c EXCEPT !.rowHeights[m.ndx] = m.value]
      [] m.object = "colWidths" -> [c EXCEPT !.colWidths[m.ndx] = m.value]
      [] m.object = "macroCellHeights" ->
            [c EXCEPT !.macroCellHeights.a[m.ndx] = m.value]
      [] OTHER -> [c EXCEPT !.viewportPosition[m.field] = m.value]

\* an array that is a view of elements start.. of the array written
WriteThrough(visible, start, m) ==
    IF m.ndx - start \in DOMAIN visible
    THEN [visible EXCEPT ![m.ndx - start] = m.value]
    ELSE visible

\* the rendered state as read after the write m, when it refers to the
\* objects in retained
ReadAfter(rs, retained, m) ==
    IF ~rs.defined \/ m.object \notin retained THEN rs
    ELSE CASE m.object = "rowHeights" ->
                [rs EXCEPT !.visibleRowHeights =
                    WriteThrough(@, rs.viewportPosition.rowNdx, m)]
           [] m.object = "colWidths" ->
                [rs EXCEPT !.visibleColWidths =
                    WriteThrough(@, rs.viewportPosition.colNdx, m)]
           [] m.object = "macroCellHeights" ->
                IF rs.visibleMacroCellHeights.defined
                THEN [rs EXCEPT !.visibleMacroCellHeights.a =
                         WriteThrough(@, rs.viewportPosition.rowNdx, m)]
                ELSE rs
           [] OTHER -> [rs EXCEPT !.viewportPosition[m.field] = m.value]

Mutated == fnOut.defined /\ "mutation" \in DOMAIN fnOut

CallerMutates ==
    /\ fnIn.defined
    /\ fnOut.defined
    /\ ~Mutated
    /\ \E m \in Mutations(fnOut.caller) :
          /\ fnOut' = [defined |-> TRUE, caller |-> Mutate(fnOut.caller, m),
                       mutation |-> m]
          /\ renderedState' = ReadAfter(renderedState, RetainedObjects(fnIn.rp), m)
    /\ UNCHANGED <<cellContainerElement, caller, last, fnIn>>

NextSnapshot == BaseRender \/ WideRender \/ CallerMutates

SnapshotSpec == InitParms /\ [][NextSnapshot]_vars

----------------------------------------------------------------------------
(* The order of the steps of a render (ParmsSpec). *)

LogIndexes(step) == {k \in DOMAIN fnOut.log : fnOut.log[k].step = step}

MapOf(rs, cellType) == IF cellType = regular THEN rs.regularCells ELSE rs.macroCells

\* the handles of the previous state at cells for which the last render made no
\* prepareCell call
LeftoverHandles ==
    IF last.oldCells.defined
    THEN {MapGet(last.oldCells.regularCells, rc[1], rc[2]) :
              rc \in Leftover(regular, last.oldCells.regularCells)}
         \cup {MapGet(last.oldCells.macroCells, rc[1], rc[2]) :
                   rc \in Leftover(macro, last.oldCells.macroCells)}
    ELSE {}

\* C25: a successful render dispatches exactly one "render" event; when it is
\* dispatched renderedState is the new state, every prepared cell is recorded in
\* it and the leftover handles of the previous state have been released; a render
\* that throws dispatches no "render" event.
C25_CompletionSignal ==
    (fnIn.defined /\ last.op = "render") =>
        /\ last.err = NoError =>
              /\ last.events = <<"render">>
              /\ Cardinality(LogIndexes("render")) = 1
              /\ \A e \in LogIndexes("render") :
                    /\ \E a \in LogIndexes("renderedState") :
                          a < e /\ fnOut.log[a].defined
                    /\ \A k \in LogIndexes("prepareCell") : k < e
                    /\ \A k \in LogIndexes("releaseCell") : k < e
                    /\ caller.releaseCell =>
                          \A h \in LeftoverHandles :
                              \E k \in LogIndexes("releaseCell") :
                                  k < e /\ fnOut.log[k].cell = h
              /\ Cardinality(LogIndexes("prepareCell")) = Len(last.prepared)
              /\ renderedState.defined
              /\ \A k \in DOMAIN last.prepared :
                    MapGet(MapOf(renderedState, last.prepared[k].cellType),
                           last.prepared[k].rowNdx, last.prepared[k].colNdx)
                        = last.prepared[k].cell
        /\ last.err # NoError =>
              /\ last.events = <<>>
              /\ LogIndexes("render") = {}

\* a render after a render that prepared cells and released a leftover handle
\* before its event
C25_Witness ==
    /\ fnIn.defined
    /\ last.op = "render"
    /\ last.err = NoError
    /\ last.oldCells.defined
    /\ last.prepared # <<>>
    /\ LeftoverHandles # {}
    /\ \E e \in LogIndexes("render"), k \in LogIndexes("releaseCell") :
          k < e /\ fnOut.log[k].cell \in LeftoverHandles

----------------------------------------------------------------------------
(* Scans with a negative distance (ScanSpec). *)

----------------------------------------------------------------------------
(* The prepareCell calls of one render (ParmsSpec). *)

\* C27: within one render the rows are processed in increasing row index; within a
\* row the regular cells are prepared in strictly increasing column index, and the
\* macro cell of the row after all its regular cells and before any cell of the
\* next row.
C27_PrepareOrder ==
    last.op = "render" =>
        \A j, k \in DOMAIN last.prepared :
            j < k =>
                LET p == last.prepared[j]
                    q == last.prepared[k]
                IN  /\ p.rowNdx <= q.rowNdx
                    /\ p.rowNdx = q.rowNdx =>
                          /\ p.cellType = regular
                          /\ q.cellType = regular => p.colNdx < q.colNdx

\* two rows, each with two regular cells and a macro cell
C27_Witness ==
    /\ last.op = "render"
    /\ last.err = NoError
    /\ \E r1, r2 \in {last.prepared[k].rowNdx : k \in DOMAIN last.prepared} :
          /\ r1 # r2
          /\ \A r \in {r1, r2} :
                /\ Cardinality({k \in DOMAIN last.prepared :
                                   last.prepared[k].rowNdx = r
                                   /\ last.prepared[k].cellType = regular}) = 2
                /\ PreparedAt(macro, r, 0) # {}

----------------------------------------------------------------------------
(* The previous handle offered to prepareCell (Spec). *)

\* the cell type an element was created for
HandleCellType(cell) ==
    IF ((cell - 1) \div 2) % (NumCols + 2) = 0 THEN macro ELSE regular

\* what the state rs holds for a cell: undefined without a state and outside the
\* window of its map
RecordedIn(rs, cellType, rowNdx, colNdx) ==
    IF rs.defined THEN MapGet(MapOf(rs, cellType), rowNdx, colNdx) ELSE Undefined

InWindow(m, rowNdx, colNdx) == getArrayIndex(m, rowNdx, colNdx) # NoIndex

\* the state a successful render leaves holds, at every cell, the handle its
\* prepareCell call returned, and nothing at the other cells
RecordsItsCalls ==
    RenderSucceeded =>
        \A cellType \in {regular, macro} :
            LET m == MapOf(renderedState, cellType)
            IN  \A r \in m.rowOffset..(m.rowOffset + m.rowCount - 1),
                   c \in m.colOffset..(m.colOffset + m.colCount - 1) :
                    IF PreparedAt(cellType, r, c) = {}
                    THEN MapGet(m, r, c) = Undefined
                    ELSE \A k \in PreparedAt(cellType, r, c) :
                             MapGet(m, r, c) = last.prepared[k].cell

\* every call of the render just made was offered what the state before the call
\* held for its cell type at its cell
OffersRecorded ==
    last'.op = "render" =>
        \A k \in DOMAIN last'.prepared :
            LET call == last'.prepared[k]
            IN  /\ call.oldCell = RecordedIn(renderedState, call.cellType,
                                             call.rowNdx, call.colNdx)
                /\ ~renderedState.defined => call.oldCell = Undefined
                /\ (renderedState.defined
                    /\ ~InWindow(MapOf(renderedState, call.cellType),
                                 call.rowNdx, call.colNdx)) =>
                       call.oldCell = Undefined
                /\ call.oldCell # Undefined =>
                       HandleCellType(call.oldCell) = call.cellType

\* C28: in every render the previous handle offered to prepareCell for
\* (cellType,row,col) is the handle the preceding render recorded for that cell
\* type at that row and column; it is undefined when that render recorded none
\* there, when the coordinate is outside the previous window and when there is
\* no previous state (first render, after clear); a handle is never offered for
\* the other cell type.
C28_ReuseLookup == []RecordsItsCalls /\ [][OffersRecorded]_vars

\* a render after a render was offered a regular and a macro handle and, for a
\* cell outside the previous window, none
C28_Witness ==
    /\ RenderSucceeded
    /\ last.oldCells.defined
    /\ \E i, j, k \in DOMAIN last.prepared :
          /\ last.prepared[i].cellType = regular
          /\ last.prepared[i].oldCell # Undefined
          /\ last.prepared[j].cellType = macro
          /\ last.prepared[j].oldCell # Undefined
          /\ last.prepared[k].oldCell = Undefined
          /\ ~InWindow(MapOf(last.oldCells, last.prepared[k].cellType),
                       last.prepared[k].rowNdx, last.prepared[k].colNdx)

----------------------------------------------------------------------------
(* Releases over a sequence of calls (Spec). *)

\* C29: over any sequence of render and clear calls that supply a release function,
\* with a prepareCell that returns the offered handle whenever one is offered and a
\* new handle otherwise, every handle is passed to the release function at most
\* once, and never before the last render that recorded it: a call releases no
\* handle twice, none that the state it leaves still records, and none that the
\* call before it released.
\* (Violated: a handle that prepareCell returned again stays in the old map and is
\* released by the render that reuses it, and again by each later one.)
C29_ReleasedOnce ==
    [][(caller.prepareCell = "reuse" /\ caller.releaseCell /\ last'.err = NoError) =>
          \A h \in Range(last'.released) :
              /\ Count(last'.released, h) = 1
              /\ h \notin RsHandles(renderedState')
              /\ h \notin Range(last.released)]_vars

----------------------------------------------------------------------------
(* The extent of the rendered range (ParmsSpec). *)

\* the rows rendered end at or below the bottom edge of the viewport, or with the
\* last row of the grid
RowsCover(rs, rowCount) ==
    \/ rs.rowYPositions[rs.visibleRows] >= rs.viewportHeight
    \/ rs.viewportPosition.rowNdx + rs.visibleRows >= rowCount

ColsCover(rs, colCount) ==
    \/ rs.colXPositions[rs.visibleCols] >= rs.viewportWidth
    \/ rs.viewportPosition.colNdx + rs.visibleCols >= colCount

\* C30: after every successful render (sizes far below the 16-bit range) either
\* rowYPositions[visibleRows] >= viewportHeight or the rendered range reaches the
\* end of the rows, and likewise for the columns and viewportWidth, also when a
\* stale pixel offset was reset to 0.
C30_RangeCoversViewport ==
    RenderSucceeded =>
        /\ RowsCover(renderedState, Length(caller.rowHeights))
        /\ ColsCover(renderedState, Length(caller.colWidths))

\* a render that reset a stale row offset and whose rows end inside the grid, at
\* or below the bottom edge of the viewport
C30_Witness ==
    /\ WideRenderSucceeded
    /\ fnIn.rp.viewportPosition.rowPixelOffset > 0
    /\ renderedState.viewportPosition.rowPixelOffset = 0
    /\ renderedState.viewportPosition.rowNdx + renderedState.visibleRows
           < Length(caller.rowHeights)
    /\ renderedState.rowYPositions[renderedState.visibleRows]
           >= renderedState.viewportHeight

----------------------------------------------------------------------------
(* The shape of the rendered state (ParmsSpec). *)

ErrCellRectMap == {ErrInvalidCellPosition, ErrInvalidConstructorParameters}

\* every handle of the map m lies in the window given
HandlesWithin(m, rowOffset, colOffset, rowCount, colCount) ==
    /\ Length(m.a) = m.rowCount * m.colCount
    /\ \A rc \in MapCoords(m) :
          /\ rc[1] >= rowOffset /\ rc[1] < rowOffset + rowCount
          /\ rc[2] >= colOffset /\ rc[2] < colOffset + colCount

\* C31: after every successful render, also with rowNdx or colNdx at or behind the
\* end of the sequence: visibleRows and visibleCols are >= 0, the visible size
\* arrays have visibleRows and visibleCols elements and the position arrays one
\* more, no visible size is -1, and every handle of regularCells and macroCells
\* lies at a row of rowNdx..rowNdx+visibleRows-1 (regular: and a column of
\* colNdx..colNdx+visibleCols-1); no render fails in CellRectMap.
C31_StateShape ==
    /\ last.op = "render" => last.err \notin ErrCellRectMap
    /\ RenderSucceeded =>
          LET rs == renderedState
              pos == rs.viewportPosition
          IN  /\ rs.visibleRows >= 0
              /\ rs.visibleCols >= 0
              /\ Length(rs.visibleRowHeights) = rs.visibleRows
              /\ Length(rs.visibleColWidths) = rs.visibleCols
              /\ Length(rs.rowYPositions) = rs.visibleRows + 1
              /\ Length(rs.colXPositions) = rs.visibleCols + 1
              /\ \A i \in DOMAIN rs.visibleRowHeights : rs.visibleRowHeights[i] # -1
              /\ \A i \in DOMAIN rs.visibleColWidths : rs.visibleColWidths[i] # -1
              /\ HandlesWithin(rs.regularCells, pos.rowNdx, pos.colNdx,
                               rs.visibleRows, rs.visibleCols)
              /\ HandlesWithin(rs.macroCells, pos.rowNdx, 0, rs.visibleRows, 1)

\* a render behind the last column: rows are visible, no column is, and no
\* handle is recorded
C31_Witness ==
    /\ WideRenderSucceeded
    /\ renderedState.viewportPosition.colNdx > Length(caller.colWidths)
    /\ renderedState.visibleCols = 0
    /\ renderedState.visibleRows > 0
    /\ MapHandles(renderedState.regularCells) = {}

----------------------------------------------------------------------------
(* The pixel offsets of the rendered state (ParmsSpec). *)

\* the elements of positive size among the visible ones
PositiveSizes(sizes) == {i \in DOMAIN sizes : sizes[i] > 0}

\* the offset is 0 or inside the first visible element, the first position is
\* minus the offset, and the first element of positive size ends behind 0
OffsetWithin(visible, offset, sizes, positions) ==
    visible > 0 =>
        /\ offset = 0 \/ offset < sizes[0]
        /\ positions[0] = -offset
        /\ \A i \in PositiveSizes(sizes) :
              (\A j \in PositiveSizes(sizes) : i <= j) => positions[i + 1] > 0

\* C32: after every successful render with visibleRows > 0 the rowPixelOffset of
\* the stored position is 0 or less than visibleRowHeights[0], rowYPositions[0] is
\* minus that offset and the first row of positive height ends below y = 0; the
\* same for colPixelOffset, visibleColWidths[0] and colXPositions[0].
C32_OffsetInvariant ==
    RenderSucceeded =>
        LET rs == renderedState
        IN  /\ OffsetWithin(rs.visibleRows, rs.viewportPosition.rowPixelOffset,
                            rs.visibleRowHeights, rs.rowYPositions)
            /\ OffsetWithin(rs.visibleCols, rs.viewportPosition.colPixelOffset,
                            rs.visibleColWidths, rs.colXPositions)

\* a render whose row offset was stale, the first row having a height of 0, and
\* was reset; a later row has a positive height
C32_Witness ==
    /\ WideRenderSucceeded
    /\ fnIn.rp.viewportPosition.rowPixelOffset > 0
    /\ renderedState.visibleRows > 0
    /\ renderedState.visibleRowHeights[0] = 0
    /\ renderedState.viewportPosition.rowPixelOffset = 0
    /\ PositiveSizes(renderedState.visibleRowHeights) # {}

----------------------------------------------------------------------------
(* Sequences of CellRectMap.set and delete at positions of the window. fnIn
   holds the map; fnOut holds, for every position of the window, the value of
   the last set there (undefined if none, or deleted since), and the positions
   deleted since their last set. *)

SeqWindows ==
    {NewCellRectMap(ro, co, rc, cc) :
        ro \in {0, 1}, co \in {0, 1}, rc \in {1, 2}, cc \in 1..MaxLen}

SeqCells == {CellHandle(regular, 0, 0, 0), CellHandle(regular, 0, 1, 0)}

Window(m) ==
    (m.rowOffset..(m.rowOffset + m.rowCount - 1))
        \X (m.colOffset..(m.colOffset + m.colCount - 1))

InitMapSeq ==
    /\ Constructed(<<"reuse", TRUE>>)
    /\ \E m \in SeqWindows :
          /\ fnIn = [defined |-> TRUE, map |-> m]
          /\ fnOut = [defined |-> TRUE,
                      stored |-> [rc \in Window(m) |-> Undefined],
                      deleted |-> {}]

SeqSet ==
    \E rc \in Window(fnIn.map), cell \in SeqCells :
        \E res \in {MapSet(fnIn.map, rc[1], rc[2], cell)} :
            /\ res.err = NoError
            /\ fnIn' = [fnIn EXCEPT !.map = res.map]
            /\ fnOut' = [fnOut EXCEPT !.stored[rc] = cell, !.deleted = @ \ {rc}]
            /\ UNCHANGED <<renderedState, cellContainerElement, caller, last>>

SeqDelete ==
    \E rc \in Window(fnIn.map) :
        \E res \in {MapDelete(fnIn.map, rc[1], rc[2])} :
            /\ res.err = NoError
            /\ fnIn' = [fnIn EXCEPT !.map = res.map]
            /\ fnOut' = [fnOut EXCEPT !.stored[rc] = Undefined,
                                      !.deleted = IF fnOut.stored[rc] # Undefined
                                                  THEN @ \cup {rc} ELSE @]
            /\ UNCHANGED <<renderedState, cellContainerElement, caller, last>>

NextMapSeq == SeqSet \/ SeqDelete

MapSeqSpec == InitMapSeq /\ [][NextMapSeq]_vars

\* C33: after any sequence of set and delete calls at positions of the window,
\* get(r,c) returns the value of the last set at (r,c), or undefined if there was
\* none or a delete since (so no call changes the value at another position), and
\* getAll() has rowCount * colCount slots that hold exactly the handles stored.
C33_MapOverWindow ==
    LET m == fnIn.map
    IN  /\ \A rc \in Window(m) : MapGet(m, rc[1], rc[2]) = fnOut.stored[rc]
        /\ Len(MapGetAll(m)) = m.rowCount * m.colCount
        /\ \A k \in DOMAIN MapGetAll(m) : MapGetAll(m)[k] \in SeqCells \cup {Undefined}
        /\ \A h \in SeqCells :
              Count(MapGetAll(m), h)
                  = Cardinality({rc \in Window(m) : fnOut.stored[rc] = h})

\* a window of two rows away from the origin that holds both handles, one of them
\* twice, next to a position deleted since its set and one never set
C33_Witness ==
    /\ fnIn.map.rowOffset = 1
    /\ fnIn.map.colOffset = 1
    /\ fnIn.map.rowCount = 2
    /\ \A h \in SeqCells : \E rc \in Window(fnIn.map) : fnOut.stored[rc] = h
    /\ \E h \in SeqCells : Count(MapGetAll(fnIn.map), h) = 2
    /\ fnOut.deleted # {}
    /\ \E rc \in Window(fnIn.map) \ fnOut.deleted : fnOut.stored[rc] = Undefined

----------------------------------------------------------------------------
(* The scrollbar round trip (RoundTripSpec). *)

WrittenBack == fnOut.defined /\ "back" \in DOMAIN fnOut

\* C34: for elementCount >= 2 and viewportSize > 0, calling process again with
\* scrollUnit propPosition and the scrollbarPosition of a result returns the
\* topNdx of that result; propPosition 0 gives topNdx 0 and propPosition 1
\* gives topNdx elementCount-1.
C34_ScrollbarRoundTrip ==
    /\ (WrittenBack /\ Scrollable(fnIn)) =>
          /\ fnOut.back.topNdx = fnOut.r.topNdx
          /\ fnOut.back.scrollbarPosition = fnOut.r.scrollbarPosition
    /\ (ProcessReturned /\ Scrollable(fnIn) /\ fnIn.scrollUnit = "propPosition") =>
          /\ fnIn.scrollValue = 0 => fnOut.r.topNdx = 0
          /\ fnIn.scrollValue = Unit => fnOut.r.topNdx = Unit * (fnIn.elementCount - 1)

\* a small increment ended at an inner index whose position is a quotient that
\* the parts of 1/Unit do not hold, and the position was handed back
C34_Witness ==
    /\ WrittenBack
    /\ Scrollable(fnIn)
    /\ fnIn.scrollUnit = "smallIncr"
    /\ fnOut.r.topNdx > 0
    /\ fnOut.r.topNdx < Unit * (fnIn.elementCount - 1)
    /\ fnOut.r.topNdx % (fnIn.elementCount - 1) # 0
    /\ fnOut.back.topNdx = fnOut.r.topNdx

----------------------------------------------------------------------------
(* ResizeController (GridResize.ts). The controller is kept in fnIn: its
   fields, the resize handle element (whether it is displayed and the position
   its style was given), whether its listeners are registered, and the
   pointers the handle element has captured. fnOut keeps the "element-resize"
   event that the last listener call dispatched, with the screen position of the
   pointer, and a record of the pointerdown that started the current drag. *)

Unset == -1

NoBoundary == [defined |-> FALSE, ndx |-> 0, orientation |-> FALSE]
Boundary(ndx, orientation) == [defined |-> TRUE, ndx |-> ndx, orientation |-> orientation]

NoMax == [defined |-> FALSE, v |-> 0]
MaxOf(v) == [defined |-> TRUE, v |-> v]

\* the style of the handle element: displayed or not, and the top or left it was
\* given (inside: the position was read inside the position array; otherwise it is
\* NaN and pos means nothing)
NoHandleStyle == [shown |-> FALSE, inside |-> TRUE, pos |-> 0]

\* the state after `new ResizeController(cp)`
NewResizeController(cp) ==
    [defined |-> TRUE,
     controllerParms |-> cp,
     isDisposed |-> FALSE,
     dragging |-> FALSE,
     dragPointerId |-> Undefined,
     dragNdx |-> Unset,
     dragOrientation |-> FALSE,
     dragStartSize |-> Unset,
     dragStartPos |-> Unset,
     resizeHandleElement |-> FALSE,
     resizeHandleBoundary |-> NoBoundary,
     resizeHandlePositionValid |-> FALSE,
     style |-> NoHandleStyle,
     listening |-> TRUE,
     captured |-> {}]

\* the first i from i0 on with pos >= positions[i] and pos below the next position
RECURSIVE scanPosFrom(_, _, _)
scanPosFrom(positions, pos, i) ==
    LET n == Length(positions)
    IN  IF i >= n THEN NoIndex
        ELSE IF pos >= positions[i] /\ (i + 1 >= n \/ pos < positions[i + 1]) THEN i
        ELSE scanPosFrom(positions, pos, i + 1)

scanPos(positions, pos) == scanPosFrom(positions, pos, 0)

findBoundary1D(position, positions, startNdx, width1, width2) ==
    LET relNdx == scanPos(positions, position)
        absNdx == startNdx + relNdx
    IN  IF relNdx = NoIndex THEN NoIndex
        ELSE IF position - positions[relNdx] < width2 /\ relNdx > 0 /\ absNdx > 0 THEN absNdx
        ELSE IF relNdx < Length(positions) - 1 /\ positions[relNdx + 1] - position < width1
        THEN absNdx + 1
        ELSE NoIndex

inMacroCell(rs, y) ==
    LET relRowNdx == scanPos(rs.rowYPositions, y)
    IN  IF ~rs.visibleMacroCellHeights.defined THEN FALSE
        ELSE IF relRowNdx = NoIndex \/ relRowNdx >= rs.visibleRows THEN FALSE
        ELSE y - rs.rowYPositions[relRowNdx]
                 >= rs.visibleRowHeights[relRowNdx] - rs.visibleMacroCellHeights.a[relRowNdx]

isVerticalPositionActiveForHorizontalSizing(cp, rs, y) ==
    LET maxRowNdx == IF cp.colSizingMaxRows.defined
                     THEN Min(cp.colSizingMaxRows.v, rs.visibleRows)
                     ELSE rs.visibleRows
    IN  y < rs.rowYPositions[maxRowNdx] /\ ~inMacroCell(rs, y)

isHorizontalPositionActiveForVerticalSizing(cp, rs, x) ==
    LET maxColNdx == IF cp.rowSizingMaxCols.defined
                     THEN Min(cp.rowSizingMaxCols.v, rs.visibleCols)
                     ELSE rs.visibleCols
    IN  x < rs.colXPositions[maxColNdx]

findBoundary2D(cp, rs, point) ==
    LET colB == findBoundary1D(point.x, rs.colXPositions, rs.viewportPosition.colNdx,
                               cp.colSizingLeftWidth, cp.colSizingRightWidth)
        rowB == findBoundary1D(point.y, rs.rowYPositions, rs.viewportPosition.rowNdx,
                               cp.rowSizingTopWidth, cp.rowSizingBottomWidth)
    IN  IF /\ cp.colSizingEnabled
           /\ colB # NoIndex
           /\ isVerticalPositionActiveForHorizontalSizing(cp, rs, point.y)
        THEN Boundary(colB, FALSE)
        ELSE IF /\ cp.rowSizingEnabled
                /\ rowB # NoIndex
                /\ isHorizontalPositionActiveForVerticalSizing(cp, rs, point.x)
        THEN Boundary(rowB, TRUE)
        ELSE NoBoundary

\* the style adjustResizeHandleElement gives the handle for a boundary: the
\* position of the boundary less the width of the handle before it
HandleStyle(cp, rs, boundary) ==
    LET positions == IF boundary.orientation THEN rs.rowYPositions ELSE rs.colXPositions
        first == IF boundary.orientation
                 THEN rs.viewportPosition.rowNdx ELSE rs.viewportPosition.colNdx
        width == IF boundary.orientation THEN cp.rowSizingTopWidth ELSE cp.colSizingLeftWidth
        k == boundary.ndx - first
    IN  IF k \in DOMAIN positions
        THEN [shown |-> TRUE, inside |-> TRUE, pos |-> positions[k] - width]
        ELSE [shown |-> TRUE, inside |-> FALSE, pos |-> 0]

adjustResizeHandleElement(ctl, rs, boundary) ==
    IF ~boundary.defined
    THEN IF ~ctl.resizeHandleBoundary.defined THEN ctl
         ELSE [ctl EXCEPT !.style.shown = IF ctl.resizeHandleElement THEN FALSE ELSE @,
                          !.resizeHandleBoundary = NoBoundary]
    ELSE IF /\ ctl.resizeHandlePositionValid
            /\ ctl.resizeHandleBoundary.defined
            /\ ctl.resizeHandleBoundary.ndx = boundary.ndx
            /\ ctl.resizeHandleBoundary.orientation = boundary.orientation
    THEN ctl
    ELSE [ctl EXCEPT !.resizeHandleElement = TRUE,
                     !.style = HandleStyle(ctl.controllerParms, rs, boundary),
                     !.resizeHandleBoundary = boundary,
                     !.resizeHandlePositionValid = TRUE]

startDragging(ctl, rs, event) ==
    LET ndx == ctl.resizeHandleBoundary.ndx - 1
        o == ctl.resizeHandleBoundary.orientation
        relNdx == ndx - (IF o THEN rs.viewportPosition.rowNdx ELSE rs.viewportPosition.colNdx)
        visibleElements == IF o THEN rs.visibleRows ELSE rs.visibleCols
        captured == [ctl EXCEPT !.dragPointerId = event.pointerId,
                                !.captured = @ \cup {event.pointerId},
                                !.dragNdx = ndx,
                                !.dragOrientation = o]
    IN  IF relNdx < 0 \/ relNdx >= visibleElements
        THEN captured
        ELSE [captured EXCEPT
                 !.dragStartSize = IF o THEN rs.visibleRowHeights[relNdx]
                                   ELSE rs.visibleColWidths[relNdx],
                 !.dragStartPos = IF o THEN event.screenY ELSE event.screenX,
                 !.dragging = TRUE]

stopDragging(ctl) ==
    [ctl EXCEPT !.captured = @ \ {ctl.dragPointerId},
                !.dragPointerId = Undefined,
                !.dragging = FALSE]

\* a size that follows the pointer below 0
DragSizeUnclamped(dragStartSize, dragStartPos, pos) == dragStartSize + (pos - dragStartPos)

\* Math.max(0, this.dragStartSize + delta)
DragSize(dragStartSize, dragStartPos, pos) == Max(0, dragStartSize + (pos - dragStartPos))

NoEvent == [defined |-> FALSE]

\* the detail of the "element-resize" event of performDragging
performDragging(ctl, event) ==
    LET pos == IF ctl.dragOrientation THEN event.screenY ELSE event.screenX
    IN  [orientation |-> ctl.dragOrientation,
         ndx |-> ctl.dragNdx,
         size |-> DragSize(ctl.dragStartSize, ctl.dragStartPos, pos)]

\* a dispose that leaves the listeners registered
disposeFlagOnly(ctl) ==
    IF ctl.isDisposed THEN ctl
    ELSE [ctl EXCEPT !.isDisposed = TRUE]

dispose(ctl) ==
    IF ctl.isDisposed THEN ctl
    ELSE [ctl EXCEPT !.isDisposed = TRUE,
                     !.listening = FALSE,
                     !.captured = IF ctl.resizeHandleElement /\ ctl.dragPointerId # Undefined
                                  THEN @ \ {ctl.dragPointerId} ELSE @,
                     !.style.shown = IF ctl.resizeHandleElement THEN FALSE ELSE @,
                     !.resizeHandleElement = FALSE]

\* the position of the viewport element: getBoundingClientRect() and the widths of
\* its left and top border
ViewportBox == [left |-> 1, top |-> 2, clientLeft |-> 1, clientTop |-> 0]

getRelativeCoordinates(event) ==
    [x |-> event.clientX - ViewportBox.left - ViewportBox.clientLeft,
     y |-> event.clientY - ViewportBox.top - ViewportBox.clientTop]

\* !event.isPrimary || event.altKey || event.ctrlKey || event.metaKey || event.shiftKey
NotPlain(event) == ~event.isPrimary \/ event.modifierKey

\* the listeners: the controller after the call and the event dispatched
layoutController_renderEventListener(ctl, rs) ==
    IF ctl.dragging /\ ctl.resizeHandleBoundary.defined
    THEN adjustResizeHandleElement([ctl EXCEPT !.resizeHandlePositionValid = FALSE], rs,
                                   ctl.resizeHandleBoundary)
    ELSE ctl

viewport_pointerMoveEventListener(ctl, rs, event) ==
    IF ctl.isDisposed \/ ~rs.defined THEN ctl
    ELSE IF NotPlain(event) \/ event.buttons # 0 THEN ctl
    ELSE IF ctl.dragging THEN ctl
    ELSE adjustResizeHandleElement(ctl, rs,
             findBoundary2D(ctl.controllerParms, rs, getRelativeCoordinates(event)))

\* whether resizeHandle_pointerMoveEventListener gets to performDragging
MoveDrags(ctl, rs, event) ==
    /\ ~(ctl.isDisposed \/ ~rs.defined)
    /\ ~NotPlain(event)
    /\ ctl.dragging

resizeHandle_pointerDownEventListener(ctl, rs, event) ==
    IF ctl.isDisposed \/ ~rs.defined THEN ctl
    ELSE IF NotPlain(event) \/ event.button # 0 THEN ctl
    ELSE IF ~ctl.resizeHandleBoundary.defined \/ ~ctl.resizeHandleElement \/ ctl.dragging
    THEN ctl
    ELSE startDragging(ctl, rs, event)

viewport_pointerUpEventListener(ctl) ==
    IF ctl.isDisposed THEN ctl
    ELSE IF ctl.dragging THEN stopDragging(ctl)
    ELSE ctl

(* The events that reach the controller. *)

PointerIds == {1, 2}

\* points of the viewport, relative to its content box
Points == {[x |-> x, y |-> y] : x \in {0, 1, 3}, y \in 0..3}

\* <<screenX, screenY>> of a pointer event
ScreenPoints == {<<0, 4>>, <<4, 0>>}

PointerEvent(isPrimary, modifierKey, buttons, button, pointerId, point, screen) ==
    [isPrimary |-> isPrimary, modifierKey |-> modifierKey, buttons |-> buttons,
     button |-> button, pointerId |-> pointerId,
     clientX |-> point.x + ViewportBox.left + ViewportBox.clientLeft,
     clientY |-> point.y + ViewportBox.top + ViewportBox.clientTop,
     screenX |-> screen[1], screenY |-> screen[2]]

\* moves over the viewport: without a button at every point, and one each that is
\* not primary, has a modifier key, has a button pressed
ViewportMoves ==
    {PointerEvent(TRUE, FALSE, 0, 0, 1, p, <<0, 0>>) : p \in Points}
        \cup {PointerEvent(FALSE, FALSE, 0, 0, 2, [x |-> 0, y |-> 2], <<0, 0>>),
              PointerEvent(TRUE, TRUE, 0, 0, 1, [x |-> 0, y |-> 2], <<0, 0>>),
              PointerEvent(TRUE, FALSE, 1, 0, 1, [x |-> 0, y |-> 2], <<0, 0>>)}

HandleDowns ==
    {PointerEvent(TRUE, FALSE, 1, 0, id, [x |-> 0, y |-> 0], s) :
        id \in PointerIds, s \in ScreenPoints}
        \cup {PointerEvent(TRUE, FALSE, 2, 2, 1, [x |-> 0, y |-> 0], <<0, 4>>),
              PointerEvent(FALSE, FALSE, 1, 0, 2, [x |-> 0, y |-> 0], <<0, 4>>)}

HandleMoves ==
    {PointerEvent(TRUE, FALSE, 1, 0, 1, [x |-> 0, y |-> 0], s) : s \in ScreenPoints}
        \cup {PointerEvent(TRUE, TRUE, 1, 0, 1, [x |-> 0, y |-> 0], <<0, 4>>)}

PointerUps ==
    {PointerEvent(TRUE, FALSE, 0, 0, id, [x |-> 0, y |-> 0], <<0, 0>>) : id \in PointerIds}

ControllerParmsCases ==
    {[layoutController |-> "layoutController",
      rowSizingEnabled |-> TRUE, colSizingEnabled |-> ce,
      rowSizingTopWidth |-> 2, rowSizingBottomWidth |-> 1,
      colSizingLeftWidth |-> 2, colSizingRightWidth |-> 1,
      rowSizingMaxCols |-> mx, colSizingMaxRows |-> mx] :
        <<ce, mx>> \in {<<TRUE, NoMax>>, <<FALSE, MaxOf(1)>>}}

\* the pointerdown that started the drag: the boundary of the handle, the size of
\* the element before it and the position of the pointer
NoDrag == [defined |-> FALSE]

DragOf(ctl, rs, event) ==
    LET b == ctl.resizeHandleBoundary
        first == IF b.orientation THEN rs.viewportPosition.rowNdx
                 ELSE rs.viewportPosition.colNdx
        sizes == IF b.orientation THEN rs.visibleRowHeights ELSE rs.visibleColWidths
    IN  [defined |-> TRUE, boundary |-> b,
         size |-> sizes[b.ndx - 1 - first],
         pos |-> IF b.orientation THEN event.screenY ELSE event.screenX]

\* a grid without macro cells whose columns can be sized, or one with macro cells
\* where only the rows can
InitResize ==
    /\ renderedState = NoRs
    /\ cellContainerElement = FALSE
    /\ last = NoCall
    /\ \E cp \in ControllerParmsCases :
          /\ caller = [InitialCaller(<<"reuse", TRUE>>) EXCEPT !.macroCellHeights =
                           IF cp.colSizingEnabled THEN NoArray
                           ELSE MacroArr(NumRows, <<1>>)]
          /\ fnIn = NewResizeController(cp)
    /\ fnOut = [defined |-> TRUE, event |-> NoEvent, drag |-> NoDrag]

\* the application scrolls to a row or to a column and renders
ResizeCallerChanges ==
         {[caller EXCEPT !.viewportPosition.rowNdx = r] : r \in {0, 1, NumRows - 1}}
    \cup {[caller EXCEPT !.viewportPosition.colNdx = c] : c \in {0, NumCols - 1}}

\* render(); the controller's listener is called with the "render" event (the
\* record of the calls made, last, is not kept here)
ResizeRender ==
    \E c \in ResizeCallerChanges :
        \E rp \in {RenderParms(c, NoMeasure)},
           out \in {render(renderedState, RenderParms(c, NoMeasure))} :
            /\ renderedState' = out.renderedState
            /\ cellContainerElement' = (cellContainerElement \/ out.containerCreated)
            /\ caller' = IF out.err = NoError THEN CallerAfter(c, out) ELSE caller
            /\ UNCHANGED last
            /\ fnIn' = IF fnIn.listening /\ "render" \in Range(out.events)
                       THEN layoutController_renderEventListener(fnIn, out.renderedState)
                       ELSE fnIn
            /\ fnOut' = [fnOut EXCEPT !.event = NoEvent]

\* clear(); the controller does not listen to the "clear" event
ResizeClear ==
    \E out \in {clear(renderedState, caller.releaseCell)} :
        /\ renderedState' = out.renderedState
        /\ fnOut' = [fnOut EXCEPT !.event = NoEvent]
        /\ UNCHANGED <<cellContainerElement, caller, last, fnIn>>

ViewportPointerMove ==
    \E event \in ViewportMoves :
        /\ fnIn' = IF fnIn.listening
                   THEN viewport_pointerMoveEventListener(fnIn, renderedState, event)
                   ELSE fnIn
        /\ fnOut' = [fnOut EXCEPT !.event = NoEvent]
        /\ UNCHANGED <<renderedState, cellContainerElement, caller, last>>

\* a pointerdown on the handle element, which is displayed
HandlePointerDown ==
    \E event \in HandleDowns :
        \E ctl \in {IF fnIn.listening
                    THEN resizeHandle_pointerDownEventListener(fnIn, renderedState, event)
                    ELSE fnIn} :
            /\ fnIn.resizeHandleElement
            /\ fnIn.style.shown
            /\ fnIn' = ctl
            /\ fnOut' = [fnOut EXCEPT !.event = NoEvent,
                                      !.drag = IF ctl.dragging /\ ~fnIn.dragging
                                               THEN DragOf(fnIn, renderedState, event)
                                               ELSE @]
            /\ UNCHANGED <<renderedState, cellContainerElement, caller, last>>

\* a pointermove on the handle element: it is under the pointer, or has captured it
HandlePointerMove ==
    \E event \in HandleMoves :
        /\ fnIn.resizeHandleElement
        /\ fnIn.style.shown \/ fnIn.captured # {}
        /\ fnOut' = [fnOut EXCEPT !.event =
                        IF fnIn.listening /\ MoveDrags(fnIn, renderedState, event)
                        THEN [defined |-> TRUE,
                              detail |-> performDragging(fnIn, event),
                              screen |-> <<event.screenX, event.screenY>>]
                        ELSE NoEvent]
        /\ UNCHANGED <<renderedState, cellContainerElement, caller, last, fnIn>>

\* a pointerup in the viewport; the browser ends the capture of the pointer after
\* the event
ViewportPointerUp ==
    \E event \in PointerUps :
        \E ctl \in {IF fnIn.listening THEN viewport_pointerUpEventListener(fnIn)
                    ELSE fnIn} :
            /\ fnIn' = [ctl EXCEPT !.captured = @ \ {event.pointerId}]
            /\ fnOut' = [fnOut EXCEPT !.event = NoEvent,
                                      !.drag = IF ctl.dragging THEN @ ELSE NoDrag]
            /\ UNCHANGED <<renderedState, cellContainerElement, caller, last>>

\* dispose(); an element that leaves the document holds no pointer
Dispose ==
    \E ctl \in {dispose(fnIn)} :
        /\ fnIn' = [ctl EXCEPT !.captured = IF ctl.resizeHandleElement THEN @ ELSE {}]
        /\ fnOut' = [fnOut EXCEPT !.event = NoEvent]
        /\ UNCHANGED <<renderedState, cellContainerElement, caller, last>>

NextResize ==
    \/ ResizeRender
    \/ ResizeClear
    \/ ViewportPointerMove
    \/ HandlePointerDown
    \/ HandlePointerMove
    \/ ViewportPointerUp
    \/ Dispose

ResizeSpec == InitResize /\ [][NextResize]_vars

----------------------------------------------------------------------------
(* Properties of the ResizeController (ResizeSpec). *)

\* C35: in every state reached by any interleaving of viewport pointermove, handle
\* pointerdown, handle pointermove, pointerup and renders, also renders that move
\* the viewport position between the detection of a boundary and the pointerdown,
\* dragPointerId is defined if and only if dragging is true, and after a pointerup
\* no pointer is held captured.
\* (Violated: startDragging sets dragPointerId and captures the pointer before it
\* finds the element of the boundary outside the rendered range and returns.)
C35_CaptureMatchesDrag ==
    /\ [](fnIn.dragPointerId # Undefined <=> fnIn.dragging)
    /\ [][ViewportPointerUp =>
              (fnIn'.dragPointerId = Undefined /\ fnIn'.captured = {})]_vars

\* the first index and the number of the rows or columns rendered
FirstOf(rs, orientation) ==
    IF orientation THEN rs.viewportPosition.rowNdx ELSE rs.viewportPosition.colNdx

VisibleOf(rs, orientation) ==
    IF orientation THEN rs.visibleRows ELSE rs.visibleCols

\* C36: an "element-resize" event is dispatched only while dragging, after an
\* accepted pointerdown on the handle and before the next pointerup; each event of
\* a drag has the ndx (boundary index of the handle less 1) and the orientation of
\* the start of the drag and size = max(0, dragStartSize + (pointer position -
\* dragStartPos)) >= 0; viewport pointermoves and renders during the drag leave the
\* boundary of the handle as it is.
C36_ResizeEvents ==
    /\ [](fnIn.dragging =>
             (fnOut.drag.defined /\ fnIn.resizeHandleBoundary = fnOut.drag.boundary))
    /\ [][fnOut'.event.defined =>
             LET d == fnOut'.event.detail
                 drag == fnOut.drag
                 pos == IF drag.boundary.orientation THEN fnOut'.event.screen[2]
                        ELSE fnOut'.event.screen[1]
             IN  /\ fnIn.dragging
                 /\ ~fnIn.isDisposed
                 /\ drag.defined
                 /\ d.ndx = drag.boundary.ndx - 1
                 /\ d.orientation = drag.boundary.orientation
                 /\ d.size = Max(0, drag.size + (pos - drag.pos))
                 /\ d.size >= 0]_vars
    /\ [][(fnIn.dragging /\ fnIn'.dragging) =>
             fnIn'.resizeHandleBoundary = fnIn.resizeHandleBoundary]_vars

\* the pointer moved above the start of a row drag by more than the height of the
\* row, and the event has the size 0
C36_Witness ==
    /\ fnOut.event.defined
    /\ fnOut.drag.boundary.orientation
    /\ fnOut.drag.size + (fnOut.event.screen[2] - fnOut.drag.pos) < 0
    /\ fnOut.event.detail.size = 0
    /\ fnOut.event.detail.ndx = fnOut.drag.boundary.ndx - 1

\* C37: whenever resizeHandleBoundary is defined, its ndx is in first+1 ..
\* first+visible of the current renderedState (rowNdx and visibleRows for a row
\* boundary, colNdx and visibleCols for a column boundary), and the position of the
\* handle was read inside rowYPositions / colXPositions.
\* (Violated: a render that scrolls leaves the boundary of the handle as it was.)
C37_BoundaryOfRenderedRange ==
    (fnIn.resizeHandleBoundary.defined /\ renderedState.defined) =>
        LET b == fnIn.resizeHandleBoundary
            first == FirstOf(renderedState, b.orientation)
        IN  /\ first + 1 <= b.ndx
            /\ b.ndx <= first + VisibleOf(renderedState, b.orientation)
            /\ b.ndx > 0
            /\ fnIn.style.inside

----------------------------------------------------------------------------
(* The render scheduler of the demo application (demo/src/Main.ts). fnIn keeps
   renderRequested and animationFrameRequestId together with the browser's side
   of requestAnimationFrame: the callbacks it has queued and the id it gives
   next. fnOut counts the requestRender() calls since the last render() call and
   the render() calls made. *)

MaxRequests == 3
MaxFrames == 3

\* the state after the script has loaded
NewScheduler ==
    [defined |-> TRUE,
     renderRequested |-> FALSE,
     animationFrameRequestId |-> 0,
     pending |-> {},
     nextId |-> 1]

\* requestAnimationFrame(animationFrameHandler): queues the callback and returns
\* its id, which is not 0
requestAnimationFrame(s) ==
    [s EXCEPT !.pending = @ \cup {s.nextId},
              !.animationFrameRequestId = s.nextId,
              !.nextId = @ + 1]

\* a frame requested whether or not one is pending
scheduleAnimationFrameAlways(s) == requestAnimationFrame(s)

scheduleAnimationFrame(s) ==
    IF s.animationFrameRequestId # 0 THEN s ELSE requestAnimationFrame(s)

requestRender(s) == scheduleAnimationFrame([s EXCEPT !.renderRequested = TRUE])

\* the objects of the demo: no releaseCell, cells that overlap by one pixel
DemoCaller ==
    [InitialCaller(<<"reuse", FALSE>>) EXCEPT !.vCellOverlap = 1]

InitScheduler ==
    /\ renderedState = NoRs
    /\ cellContainerElement = FALSE
    /\ caller = DemoCaller
    /\ last = NoCall
    /\ fnIn = NewScheduler
    /\ fnOut = [defined |-> TRUE, requests |-> 0, renders |-> 0]

\* what a handler of the demo changes before it calls requestRender(): it scrolls
\* to a row or a column, or sets the size of a row
SchedulerCallerChanges ==
         {[caller EXCEPT !.viewportPosition.rowNdx = r] : r \in {0, 1}}
    \cup {[caller EXCEPT !.viewportPosition.colNdx = c] : c \in {0, 1}}
    \cup {[caller EXCEPT !.rowHeights[0] = h] : h \in {0, 2}}

\* a handler of the demo (scrollbar, wheel, key, element-resize, parameters)
RequestRender ==
    /\ fnOut.requests < MaxRequests
    /\ fnIn.animationFrameRequestId # 0 \/ fnIn.nextId <= MaxFrames
    /\ \E c \in SchedulerCallerChanges : caller' = c
    /\ fnIn' = requestRender(fnIn)
    /\ fnOut' = [fnOut EXCEPT !.requests = @ + 1]
    /\ UNCHANGED <<renderedState, cellContainerElement, last>>

\* the browser calls animationFrameHandler for a callback it has queued
AnimationFrame ==
    \E id \in fnIn.pending :
        \E s \in {[fnIn EXCEPT !.pending = @ \ {id}, !.animationFrameRequestId = 0]} :
            IF s.renderRequested
            THEN \E rp \in {RenderParms(caller, NoMeasure)},
                    out \in {render(renderedState, RenderParms(caller, NoMeasure))} :
                     /\ RenderEffect(caller, rp, out)
                     /\ fnIn' = [s EXCEPT !.renderRequested = (out.err # NoError)]
                     /\ fnOut' = [fnOut EXCEPT !.requests = 0, !.renders = @ + 1]
            ELSE /\ fnIn' = s
                 /\ UNCHANGED <<renderedState, cellContainerElement, caller, last, fnOut>>

NextScheduler == RequestRender \/ AnimationFrame

SchedulerSpec == InitScheduler /\ [][NextScheduler]_vars

\* what a call of animationFrameHandler does to the scheduler: the callback leaves
\* the queue, animationFrameRequestId is 0 and renderRequested is what renderGrid
\* leaves. The steps of NextScheduler that satisfy it are those of AnimationFrame,
\* and it is enabled when AnimationFrame is: when a callback is queued.
FrameCallback ==
    \E id \in fnIn.pending, requested \in BOOLEAN :
        fnIn' = [fnIn EXCEPT !.pending = @ \ {id},
                             !.animationFrameRequestId = 0,
                             !.renderRequested = requested]

\* the browser calls every callback it has queued
SchedulerLiveSpec == SchedulerSpec /\ WF_fnIn(FrameCallback)

FrameFires == Cardinality(fnIn'.pending) < Cardinality(fnIn.pending)

\* C39: at most one animation-frame callback is pending at any time; however many
\* requestRender() calls were made before the frame fires, the frame makes exactly
\* one render() call; every requestRender() is followed by a render() call once the
\* frame fires; a frame without a request makes no render() call.
C39_RenderCoalescing ==
    /\ [](/\ Cardinality(fnIn.pending) <= 1
          /\ fnIn.animationFrameRequestId # 0 <=> fnIn.pending # {}
          /\ fnOut.requests > 0 => (fnIn.renderRequested /\ fnIn.pending # {}))
    /\ [][FrameFires =>
             IF fnOut.requests > 0
             THEN fnOut'.renders = fnOut.renders + 1 /\ fnOut'.requests = 0
             ELSE fnOut'.renders = fnOut.renders]_vars
    /\ [][fnOut'.renders # fnOut.renders => FrameFires]_vars
    /\ (fnOut.requests > 0) ~> (fnOut.requests = 0)

\* three requests were made before the frame fired, and the second frame is
\* pending with three more
C39_Witness ==
    /\ fnOut.renders = 1
    /\ fnOut.requests = MaxRequests
    /\ fnIn.animationFrameRequestId = 2
    /\ fnIn.pending = {2}

====
